---- MODULE Spec2Model ----
(***************************************************************************)
(* Model of the adaptive crawl orchestrator of the movie recommendation    *)
(* system: the two-phase batch loop of crawl_movies (Douban and IMDB),     *)
(* the Selenium network managers, the list-page mode controller of         *)
(* _collect_movie_links, and the get_page entry points of the network      *)
(* managers.                                                               *)
(***************************************************************************)
EXTENDS Integers, Sequences, FiniteSets, TLC

(*************************** bounds of the model ***************************)
\* largest target (max_movies) a job is started with
MaxTarget == 2
\* largest max_pages a job is started with
MaxPages == 1
\* number of distinct movies the simulated site knows
NumMovies == 1
\* number of browser sessions a network manager may start
MaxSessions == 2
\* number of list urls handed to _collect_movie_links
MaxListUrls == 9
\* get_page calls made on one stand-alone manager
MaxCalls == 2
\* Largest consecutive-failure count the delay window is computed for.
MaxPressure == 5
\* Largest request count _smart_delay is computed for.
\* Calls of the data processor on the same raw record.
MaxNormCalls == 2
\* Seconds the wall clock advances at most.
MaxClock == 1
MaxJobLinks == 1

(***************************** program constants ***************************)
\* crawl_movies: batch_size = 50
batch_size == 50
\* _collect_movie_links: max_consecutive_fails = 3
max_consecutive_fails == 3
\* @retry(stop_max_attempt_number=3, ...) on get_page (douban, imdb)
stop_max_attempt_number == 3
\* IMDBConfig.MAX_RETRY_TIMES, the attempt limit of network_new.get_page
MAX_RETRY_TIMES == 2
\* RTConfig.RETRY_TIMES, the attempt loop of RTNetwork.get_page
RETRY_TIMES == 3
\* get_with_retry_and_rotation(url, max_attempts=3)
max_attempts == 3
\* Config.DELAY_MIN and Config.DELAY_MAX, in seconds.
DELAY_MIN == 2
DELAY_MAX == 5
\* Shortest page content parse_movie_list goes on to parse.
MinContentLength == 1000
\* First year _clean_year keeps, and how far past the current year it goes.
MIN_YEAR == 1880
YEAR_SLACK == 2
\* datetime.now().year while the model runs.
CurrentYear == 2026

Min(a, b) == IF a < b THEN a ELSE b

None == "None"

Platforms == {"douban", "imdb"}

(***************************************************************************)
(* The site.  An href found on a list page is <<movie id, variant>>: the   *)
(* same movie can be linked under two different strings (variant 0 is the  *)
(* plain link, variant 1 the same link with a query string or other        *)
(* suffix).                                                                *)
(***************************************************************************)
Hrefs == {<<1, 0>>, <<1, 1>>} \cup {<<m, 0>> : m \in 2..NumMovies}

\* Variant that returns every href as it stands.
ParsedLinkRaw(p, h) == h

\* parser.parse_movie_list: which link string the parser returns for an href.
\* Douban returns the raw href; IMDB rewrites it to /title/<id>/ and joins
\* it with the base url, which is one string per movie.
ParsedLink(p, h) == IF p = "douban" THEN h ELSE <<h[1], 0>>

ParseMovieList(p, hs) == {ParsedLink(p, h) : h \in hs}

\* The sourceId carried by a record parsed from a link.  Douban:
\* _extract_douban_id takes the digits after /subject/.  IMDB:
\* parse_movie_detail sets no imdb_id, the cleaned record holds ''
\* (modelled as 0).
SourceId(p, link) == IF p = "douban" THEN link[1] ELSE 0

\* Config.get_movie_list_urls([category], max_pages): number of list urls.
\* An unknown category matches no branch and yields no url.  Pages25 and
\* PagesFrom1 are len(range(0, stop, 25)) and len(range(1, stop)): an empty
\* range has no element.
ListUrlCount(p, cat, mp) ==
    LET Pages25(stop) == IF stop <= 0 THEN 0 ELSE (stop + 24) \div 25
        PagesFrom1(stop) == IF stop <= 1 THEN 0 ELSE stop - 1
    IN
    IF p = "douban"
    THEN CASE cat = "hot"    -> Pages25(Min(mp * 25, 500))
           [] cat = "top250" -> Pages25(Min(mp * 25, 250))
           [] cat \in {"new_movies", "weekly_best", "north_america"}
                             -> Pages25(Min(mp * 25, 100))
           [] cat \in {"classic", "comedy", "action", "romance", "sci_fi"}
                             -> Pages25(Min(mp, 8) * 25)
           [] OTHER          -> 0
    ELSE CASE cat \in {"top250", "popular", "upcoming", "in_theaters"} -> 1
           [] cat \in {"most_popular_movies", "top_rated_movies"}
                                    -> PagesFrom1(Min(mp + 1, 21))
           [] cat = "recent_movies" -> PagesFrom1(Min(mp + 1, 11))
           [] OTHER                 -> 0

CategoryLists(p) ==
    IF p = "douban"
    THEN {<<"hot">>, <<"hot", "top250">>, <<"unknown", "hot">>}
    ELSE {<<"top250">>, <<"top250", "most_popular_movies">>, <<"unknown", "top250">>}

VARIABLES
    platform,        \* which crawler runs the job
    max_movies,      \* job target
    categories,      \* job categories
    max_pages,       \* job max_pages
    pc,              \* position of crawl_movies
    all_movie_data,  \* crawl_movies: all_movie_data
    collected_links, \* crawl_movies: collected_links (the seen set)
    batch_count,     \* crawl_movies: batch_count
    cat_idx,         \* _collect_batch_links: index of the category in progress
    page_idx,        \* _collect_batch_links: index i of the list url
    new_links,       \* _collect_batch_links: set of the strings in new_links
    new_links_len,   \* _collect_batch_links: len(new_links), duplicates counted
    todo,            \* _parse_batch_movies: links of the batch not yet visited
    movie_data,      \* _parse_batch_movies: movie_data
    handed,          \* number of batches each link was handed to extraction
    driver,          \* NetworkManager.driver (0 is None)
    driver_ready,    \* NetworkManager._driver_ready
    live_sessions,   \* browser sessions started and not quit
    opened,          \* browser sessions started so far
    cleaned_data,    \* records after clean_movie_data
    result,          \* <<the dict crawl_movies returns>>, <<>> before it is built
    exit,            \* how crawl_movies left: "none", "returned",
                     \* "interrupted" (cancelled) or "raised" (an error escaped)
    error_seen,      \* an exception reached the outer except of crawl_movies
    hist,            \* how the get_page calls of the job went so far: "start",
                     \* "ok" (all useful), "B" and "BB" (one, two calls without
                     \* a useful page and nothing else), "BBok" (two such calls,
                     \* then only useful ones) or "other"
    last_parse,      \* the latest loop body of _parse_batch_movies: what the
                     \* first fetch and parse gave, the number of get_page
                     \* calls made for the link, whether a record was appended
    \* _collect_movie_links (the list-page mode controller)
    m_pc,            \* "idle", "run", "done", "raised" or "interrupted"
    m_n,             \* len(list_urls)
    m_i,             \* list urls visited so far
    consecutive_fails,
    failed_pages,
    last_mode,       \* mode of the latest get_page: "none", "direct", "rendered"
    ever_rendered,   \* a get_page asked for Selenium before
    direct_always_blocked, \* every Direct fetch so far failed (no links came
                     \* back: the page was empty or the call raised)
    last_outcome,    \* what the latest iteration met: "none", "links",
                     \* "empty" or "raise"
    \* one network manager and its get_page calls
    f_kind,          \* "douban", "imdb", "douban_rotation", "imdb_new" or "rt"
    f_pc,            \* "idle", "attempt", "returned" or "raised"
    f_use_selenium,  \* the use_selenium parameter of the call in progress:
                     \* "none", "true" or "false"
    f_attempt,       \* attempt number of the call in progress
    f_result,        \* value returned by the latest call
    f_sel_failed,    \* a Selenium fetch failed during the latest call
    f_direct_tried,  \* requests fetches made after a failed Selenium fetch
    f_calls,         \* get_page calls started
    \* the data processors, called on one raw record
    n_platform,      \* "douban", "imdb" or "rt"
    n_raw,           \* the raw record
    n_clock,         \* the wall clock (seconds)
    n_file,          \* the poster file of the record exists on disk
    n_out,           \* the records the calls made so far returned, as they are now
    \* the delay windows, computed for two pressure counts
    d_kind,          \* "collect" (_collect_movie_links) or "smart" (_smart_delay)
    d_a,             \* the smaller count
    d_b,             \* the larger count
    d_win,           \* <<window of d_a, window of d_b>>, <<>> before
    d_delay,         \* <<delay drawn for d_a, delay drawn for d_b>>
    \* the block checks, applied to one response
    b_resp,          \* the response
    b_verdict,       \* "none" before the checks, then the verdict
    \* MultiPlatformCrawler.multi_platform_crawl
    s_pc,            \* "start", "loop", "done" or "aborted"
    s_enabled,       \* the enabled platforms
    s_todo,          \* enabled platforms not yet visited, in order
    s_results,       \* results[platform_key]
    s_ran,           \* platforms whose job was started
    s_total,         \* total_movies
    s_sum            \* records returned by the jobs that ended with success

\* Two crawler instances side by side: the network manager each one holds,
\* the driver of each manager, the locals of each one's crawl, and the
\* instance that took the latest step.
VARIABLES i_manager, i_driver, i_links, i_data, i_fails, i_actor

\* Pacing of the job's page requests: "cool" after a delay (or before the
\* first request), "hot" after a request with no delay since, "burst" when
\* that request was itself issued with no delay after the one before it.
VARIABLE pace

vars == <<platform, max_movies, categories, max_pages, pc, all_movie_data,
          collected_links, batch_count, cat_idx, page_idx, new_links,
          new_links_len, todo, movie_data, handed, driver, driver_ready,
          live_sessions, opened, cleaned_data, result, exit, error_seen,
          hist, last_parse, m_pc, m_n, m_i, consecutive_fails, failed_pages, last_mode, ever_rendered,
          direct_always_blocked, f_kind, f_pc, f_use_selenium, f_attempt,
          f_result, f_sel_failed, f_direct_tried, f_calls, last_outcome,
          n_platform, n_raw, n_clock, n_file, n_out, d_kind, d_a, d_b, d_win, d_delay,
          b_resp, b_verdict, s_pc, s_enabled, s_todo, s_results, s_ran,
          s_total, s_sum,
          i_manager, i_driver, i_links, i_data, i_fails, i_actor, pace>>

jobvars == <<platform, max_movies, categories, max_pages>>
netvars == <<driver, driver_ready, live_sessions, opened>>
crawlvars == <<pc, all_movie_data, collected_links, batch_count, cat_idx,
               page_idx, new_links, new_links_len, todo, movie_data, handed,
               cleaned_data, result, exit, error_seen, hist, last_parse,
               pace>>
modevars == <<m_pc, m_n, m_i, consecutive_fails, failed_pages, last_mode,
              ever_rendered, direct_always_blocked, last_outcome>>
fetchvars == <<f_kind, f_pc, f_use_selenium, f_attempt, f_result,
               f_sel_failed, f_direct_tried, f_calls>>
normvars == <<n_platform, n_raw, n_clock, n_file, n_out>>
delayvars == <<d_kind, d_a, d_b, d_win, d_delay>>
detectvars == <<b_resp, b_verdict>>
supvars == <<s_pc, s_enabled, s_todo, s_results, s_ran, s_total, s_sum>>

instvars == <<i_manager, i_driver, i_links, i_data, i_fails, i_actor>>
auxvars == <<normvars, delayvars, detectvars, supvars, instvars>>
corevars == <<jobvars, netvars, crawlvars, modevars, fetchvars>>

Links == Hrefs

(***************************************************************************)
(* Network manager (douban_crawler/network.py, imdb_crawler/network.py).   *)
(* A manager is the record [driver, ready, live, opened].                  *)
(***************************************************************************)
NewNet == [driver |-> 0, ready |-> FALSE, live |-> {}, opened |-> 0]

\* What one Selenium fetch meets:
\*   "init_fail"      _init_chrome_driver raises before webdriver.Chrome returns
\*   "init_late_fail" webdriver.Chrome returned, execute_script raises
\*   "get_fail"       driver.get raises
\*   "source_fail"    driver.get returned and the delays were slept, then
\*                    page_source raises
\*   "page"           the page source is returned
FetchOutcomes ==
    {"init_fail", "init_late_fail", "get_fail", "source_fail", "page"}

\* Outcomes that can happen to a manager: no initialisation runs while
\* _driver_ready holds.
OutcomesFor(net) ==
    IF net.ready THEN {"get_fail", "source_fail", "page"} ELSE FetchOutcomes

\* _init_chrome_driver: returns the manager and whether it raised.  No more
\* than MaxSessions browsers can be started; a further start fails early.
InitChromeDriver(net, o) ==
    IF o = "init_fail" \/ net.opened >= MaxSessions
    THEN [net |-> net, raised |-> TRUE]
    ELSE LET s == net.opened + 1
             started == [net EXCEPT !.driver = s, !.opened = s,
                                    !.live = net.live \cup {s}]
         IN IF o = "init_late_fail"
            THEN [net |-> started, raised |-> TRUE]
            ELSE [net |-> [started EXCEPT !.ready = TRUE], raised |-> FALSE]

\* Variant of _get_with_selenium that lets the exception out.
GetWithSeleniumReraise(net, o) ==
    LET i == IF net.ready THEN [net |-> net, raised |-> FALSE]
             ELSE InitChromeDriver(net, o)
    IN IF i.raised THEN [net |-> i.net, resp |-> None, raised |-> TRUE]
       ELSE IF o = "page"
            THEN [net |-> i.net, resp |-> "page", raised |-> FALSE]
            ELSE [net |-> i.net, resp |-> None, raised |-> TRUE]

\* _get_with_selenium: every exception is caught and None is returned.
GetWithSelenium(net, o) ==
    LET i == IF net.ready THEN [net |-> net, raised |-> FALSE]
             ELSE InitChromeDriver(net, o)
    IN IF i.raised THEN [net |-> i.net, resp |-> None, raised |-> FALSE]
       ELSE IF o = "page"
            THEN [net |-> i.net, resp |-> "page", raised |-> FALSE]
            ELSE [net |-> i.net, resp |-> None, raised |-> FALSE]

\* get_page under @retry(stop_max_attempt_number=3): the call is repeated
\* while it raises, and the last exception is raised after the last attempt.
\* use_selenium is ignored: both managers always use Selenium.
RECURSIVE GetPageRetry(_, _, _)
GetPageRetry(net, o, attempt) ==
    LET r == GetWithSelenium(net, o)
    IN IF ~r.raised \/ attempt >= stop_max_attempt_number
       THEN [net |-> r.net, resp |-> r.resp, raised |-> r.raised,
             attempts |-> attempt]
       ELSE GetPageRetry(r.net, o, attempt + 1)

get_page(net, o) == GetPageRetry(net, o, 1)

\* A KeyboardInterrupt that arrives inside _get_with_selenium cuts the
\* attempt short (no except Exception catches it).  What the attempt leaves
\* of the manager depends on how far it came: nothing was started; Chrome
\* was launched and webdriver.Chrome had not returned (a browser with no
\* handle in self.driver); self.driver was assigned and _driver_ready not
\* yet set; or the driver was ready (the signal came in driver.get, in a
\* sleep or in page_source).
InterruptedAttempt(net) ==
    IF net.ready \/ net.opened >= MaxSessions THEN {net}
    ELSE LET s == net.opened + 1
             launched == [net EXCEPT !.opened = s, !.live = net.live \cup {s}]
             started == [launched EXCEPT !.driver = s]
         IN {net, launched, started, [started EXCEPT !.ready = TRUE]}

\* The manager after at most k attempts cut short one after the other.
RECURSIVE SignalNets(_, _)
SignalNets(net, k) ==
    IF k = 0 THEN {net}
    ELSE UNION {InterruptedAttempt(n) : n \in SignalNets(net, k - 1)}

\* Retrying.call runs the attempt inside try / except: (a bare except), so
\* a KeyboardInterrupt raised in an attempt is taken for a failed attempt:
\* the call waits wait_fixed and runs get_page again; only the exception of
\* attempt stop_max_attempt_number is raised.  Swallowed(net) is what the
\* attempts swallowed before the one that completes leave: the manager and
\* the wait that follows them (none when no signal arrived).
Swallowed(net) ==
    {[net |-> net, pace |-> <<>>]}
    \cup {[net |-> n, pace |-> <<"delay">>] :
            n \in SignalNets(net, stop_max_attempt_number - 1)}

\* What one _get_with_selenium call does, in order: "request" for
\* driver.get(url), "delay" for the _random_delay and sleep that follow a
\* driver.get that returned.  No request is issued when the driver could
\* not be initialised, and no delay follows a driver.get that raised; an
\* exception of page_source comes after the delay.
PaceOf(net, o) ==
    LET i == IF net.ready THEN [net |-> net, raised |-> FALSE]
             ELSE InitChromeDriver(net, o)
    IN IF i.raised THEN <<>>
       ELSE IF o \in {"page", "source_fail"} THEN <<"request", "delay">>
       ELSE <<"request">>

\* pace after one more event: a request that follows a request with no
\* delay between them is a burst.
PaceStep(p, ev) ==
    IF ev = "delay" THEN "cool"
    ELSE IF p \in {"hot", "burst"} THEN "burst"
    ELSE "hot"

\* pace after the events of one loop body, in their order.
RECURSIVE PaceFold(_, _)
PaceFold(p, evs) ==
    IF evs = <<>> THEN p
    ELSE PaceFold(PaceStep(p, Head(evs)), Tail(evs))

\* if i > 0: time.sleep(random.uniform(2, 4))
ListPageSleep(i) == IF i > 0 THEN <<"delay">> ELSE <<>>

\* NetworkManager.close: quit the driver if there is one; an exception of
\* quit() is logged and swallowed, leaving driver and _driver_ready as
\* they were.  q is what quit() does: "ok", "raised_gone" (it raised and
\* the browser is gone), "raised_open" (it raised, the browser stays).
QuitOutcomes == {"ok", "raised_gone", "raised_open"}

close(net, q) ==
    IF net.driver = 0 THEN net
    ELSE IF q = "ok"
         THEN [net EXCEPT !.live = net.live \ {net.driver},
                          !.driver = 0, !.ready = FALSE]
         ELSE IF q = "raised_gone"
              THEN [net EXCEPT !.live = net.live \ {net.driver}]
              ELSE net

Net == [driver |-> driver, ready |-> driver_ready,
        live |-> live_sessions, opened |-> opened]

SetNet(n) ==
    /\ driver' = n.driver
    /\ driver_ready' = n.ready
    /\ live_sessions' = n.live
    /\ opened' = n.opened

(***************************************************************************)
(* crawl_movies (douban_crawler/crawler.py, imdb_crawler/crawler.py).      *)
(***************************************************************************)
\* remaining = max_movies - len(all_movie_data)
remaining == max_movies - Len(all_movie_data)

\* target_batch_links = min(batch_size, remaining * 2)
target_batch_links == Min(batch_size, remaining * 2)

\* Links a list-page response yields.  parse_movie_list returns [] for a
\* missing response (the exception is caught inside the parser).
ListLinks(p, resp, hs) == IF resp = None THEN {} ELSE ParseMovieList(p, hs)

\* Variant that forgets the seen set: every parsed link counts as new.
FilterLinksNone(movie_links, exclude_links) == movie_links

\* filtered_links = [link for link in movie_links if link not in exclude_links]
FilterLinks(movie_links, exclude_links) == movie_links \ exclude_links

\* list(set(new_links))[:target_count]: the selections of target_count
\* members a set order can produce.
Truncations(S, n) ==
    {U \in SUBSET S : Cardinality(U) = Min(n, Cardinality(S))}

\* What parse_movie_detail can return for a fetched detail page:
\*   "none"     the parser raised inside and returned None
\*   "notitle"  a dict whose title is empty (IMDB only: the Douban parser
\*              falls back to 'Unknown Movie')
\*   "norating" a dict with a title and rating None
\*   "full"     a dict with a title and a rating
DetailKinds(p) ==
    IF p = "douban" THEN {"none", "norating", "full"}
    ELSE {"none", "notitle", "norating", "full"}

\* parse_movie_detail(response, link): None for a missing response.
ParseMovieDetail(resp, d) == IF resp = None THEN "none" ELSE d

\* movie_info and movie_info.get('title')
HasTitle(info) == info \in {"norating", "full"}

MovieInfo(link, info) == [link |-> link, has_rating |-> (info = "full")]

\* The model stops counting batches one past the number a run can need:
\* every batch but the last adds a link to collected_links.
BatchCap == Cardinality(Links) + 2

\* while len(all_movie_data) < max_movies: batch_count += 1, then phase 1
\* starts with an empty new_links at the first category.
BeginBatch ==
    /\ UNCHANGED pace
    /\ pc = "loop"
    /\ batch_count < BatchCap
    /\ IF Len(all_movie_data) < max_movies
       THEN /\ batch_count' = batch_count + 1
            /\ cat_idx' = 1
            /\ page_idx' = 0
            /\ new_links' = {}
            /\ new_links_len' = 0
            /\ pc' = "collect"
       ELSE /\ pc' = "finalize"
            /\ UNCHANGED <<batch_count, cat_idx, page_idx, new_links, new_links_len>>
    /\ UNCHANGED <<modevars, fetchvars, auxvars>>
    /\ UNCHANGED <<jobvars, netvars, all_movie_data, collected_links, todo,
                   movie_data, handed, cleaned_data, result, exit, error_seen,
                   hist, last_parse>>

\* _collect_batch_links: the urls of the category are exhausted, the outer
\* for moves to the next category.
NextCategory ==
    /\ UNCHANGED pace
    /\ pc = "collect"
    /\ cat_idx <= Len(categories)
    /\ new_links_len < target_batch_links
    /\ page_idx >= ListUrlCount(platform, categories[cat_idx], max_pages)
    /\ cat_idx' = cat_idx + 1
    /\ page_idx' = 0
    /\ UNCHANGED <<modevars, fetchvars, auxvars>>
    /\ UNCHANGED <<jobvars, netvars, pc, all_movie_data, collected_links,
                   batch_count, new_links, new_links_len, todo, movie_data,
                   handed, cleaned_data, result, exit, error_seen,
                   hist, last_parse>>

\* What a list-page fetch meets: the attempts a KeyboardInterrupt cut
\* short and retrying swallowed, the outcome of the attempt that completes
\* and, when a page comes back, the hrefs on it.
ListPageInputs(net) ==
    UNION {{<<s, in[1], in[2]>> :
              in \in {<<o, h>> \in OutcomesFor(s.net) \X SUBSET Hrefs :
                         o # "page" => h = {}}} :
           s \in Swallowed(net)}

\* The states a manager can be in.
NetStates ==
    [driver : 0..MaxSessions, ready : BOOLEAN,
     live : SUBSET (1..MaxSessions), opened : 0..MaxSessions]

\* How one get_page call for a list page went: "K" when it returned a page
\* with links on it, "B" when it raised or the page held no link.
ListCall(raised, links) == IF raised \/ links = {} THEN "B" ELSE "K"

\* How one get_page call for a detail page went: "K" when the page was
\* parsed to a movie_info with title and rating, "B" when the call raised
\* or nothing was parsed, "X" for a movie_info without title or rating.
DetailCall(raised, info) ==
    IF raised \/ info = "none" THEN "B"
    ELSE IF info = "full" THEN "K"
    ELSE "X"

\* What the first get_page and parse_movie_detail of a link gave: "nopage"
\* when no response came back, otherwise the kind of the movie_info.
FirstParse(resp, info) == IF resp = None THEN "nopage" ELSE info

\* No loop body of _parse_batch_movies has run in this batch.
NoParse == [first |-> "idle", fetches |-> 0, added |-> FALSE]

\* hist after one more call.
HistStep(h, c) ==
    IF c = "K"
    THEN CASE h \in {"start", "ok"}  -> "ok"
           [] h \in {"BB", "BBok"}   -> "BBok"
           [] OTHER                  -> "other"
    ELSE IF c = "B"
    THEN CASE h = "start" -> "B"
           [] h = "B"     -> "BB"
           [] OTHER       -> "other"
    ELSE "other"

\* hist after the calls of one loop body, in their order.
RECURSIVE HistFold(_, _)
HistFold(h, calls) ==
    IF calls = <<>> THEN h
    ELSE HistFold(HistStep(h, Head(calls)), Tail(calls))

\* The link strings the site can show this platform.
SiteLinks(p) == ParseMovieList(p, Hrefs)

\* A page with links of which none is new is no useful page, unless the
\* job has seen every link of the site.
ListCalls(calls, links, seen) ==
    IF /\ calls[Len(calls)] = "K"
       /\ links \subseteq seen
       /\ ~(SiteLinks(platform) \subseteq seen)
    THEN [calls EXCEPT ![Len(calls)] = "X"]
    ELSE calls

\* Fetching and parsing one list url: the manager afterwards, the links
\* found and whether get_page raised.  Douban fetches the page and fetches
\* it a second time when the first parse gave no link; IMDB fetches once.
ListResults(p, net) ==
    UNION {LET n1 == in1[1].net
               r1 == get_page(n1, in1[2])
               l1 == ListLinks(p, r1.resp, in1[3])
               p1 == in1[1].pace \o PaceOf(n1, in1[2])
           IN IF r1.raised
              THEN {[net |-> r1.net, links |-> {}, raised |-> TRUE,
                     calls |-> <<"B">>, pace |-> p1]}
              ELSE IF p = "douban" /\ l1 = {}
                   THEN {LET n2 == in2[1].net
                             r2 == get_page(n2, in2[2])
                             l2 == ListLinks(p, r2.resp, in2[3])
                         IN [net |-> r2.net, links |-> l2,
                             raised |-> r2.raised,
                             calls |-> <<"B", ListCall(r2.raised, l2)>>,
                             pace |-> p1 \o in2[1].pace
                                        \o PaceOf(n2, in2[2])] :
                         in2 \in ListPageInputs(r1.net)}
                   ELSE {[net |-> r1.net, links |-> l1, raised |-> FALSE,
                          calls |-> <<ListCall(FALSE, l1)>>,
                          pace |-> p1]} :
           in1 \in ListPageInputs(net)}

\* ListResults for every platform and manager state, indexed by <<traced,
\* platform, manager>>; the plain iteration (traced FALSE) keeps no record
\* of the requests and delays.  (f @@ <<>> is f, tabulated once.)
ListResultsTable ==
    [k \in BOOLEAN \X Platforms \X NetStates |->
       IF k[1] THEN ListResults(k[2], k[3])
       ELSE {[r EXCEPT !.pace = <<>>] : r \in ListResults(k[2], k[3])}] @@ <<>>

\* _collect_batch_links: one iteration of the inner for over the list urls.
\* The links of the page are filtered against exclude_links and appended
\* to new_links; an exception skips the url.
CollectPageBody(traced) ==
    /\ pc = "collect"
    /\ cat_idx <= Len(categories)
    /\ new_links_len < target_batch_links
    /\ page_idx < ListUrlCount(platform, categories[cat_idx], max_pages)
    /\ \E r \in ListResultsTable[<<traced, platform, Net>>] :
         /\ SetNet(r.net)
         /\ hist' = HistFold(hist, ListCalls(r.calls, r.links,
                                             collected_links \cup new_links))
         /\ pace' = IF traced
                    THEN PaceFold(pace, ListPageSleep(page_idx) \o r.pace)
                    ELSE pace
         /\ IF r.raised
            THEN UNCHANGED <<new_links, new_links_len>>
            ELSE /\ new_links' =
                      new_links \cup FilterLinks(r.links, collected_links)
                 /\ new_links_len' = new_links_len
                      + Cardinality(FilterLinks(r.links, collected_links))
    /\ page_idx' = page_idx + 1
    /\ UNCHANGED <<modevars, fetchvars, auxvars>>
    /\ UNCHANGED <<jobvars, pc, all_movie_data, collected_links, batch_count,
                   cat_idx, todo, movie_data, handed, cleaned_data, result,
                   exit, error_seen, last_parse>>

\* The iteration as the job runs it; CollectPageBody(TRUE) is the same
\* iteration with its requests and delays recorded in pace.
CollectPage == CollectPageBody(FALSE)

\* Variant without the early exit: an empty discovery batch does not end
\* the loop.
NoNewLinksNever(unique_links) == FALSE

\* if not new_links: break
NoNewLinks(unique_links) == unique_links = {}

\* End of _collect_batch_links and lines 87-96 of crawl_movies: the unique
\* links are cut to target_count; an empty batch ends the loop, otherwise
\* the links join collected_links and phase 2 starts on them.
FinishCollect ==
    /\ UNCHANGED pace
    /\ pc = "collect"
    /\ \/ cat_idx > Len(categories)
       \/ new_links_len >= target_batch_links
    /\ \E unique_links \in Truncations(new_links, target_batch_links) :
         IF NoNewLinks(unique_links)
         THEN /\ pc' = "finalize"
              /\ UNCHANGED <<collected_links, todo, movie_data, handed>>
         ELSE /\ collected_links' = collected_links \cup unique_links
              /\ todo' = unique_links
              /\ movie_data' = <<>>
              /\ handed' = [l \in Links |->
                              IF l \in unique_links THEN Min(handed[l] + 1, 2)
                              ELSE handed[l]]
              /\ pc' = "parse"
    /\ UNCHANGED <<modevars, fetchvars, auxvars>>
    /\ UNCHANGED <<jobvars, netvars, all_movie_data, batch_count, cat_idx,
                   page_idx, new_links, new_links_len, cleaned_data, result,
                   exit, error_seen,
                   hist, last_parse>>

\* DoubanMovieCrawler defines no _is_movie_info_complete: evaluating
\* self._is_movie_info_complete raises AttributeError, which the except of
\* the loop body catches.  IMDB never evaluates it in _parse_batch_movies.
IsMovieInfoCompleteRaises(p) == p = "douban"

\* Body of the for loop of _parse_batch_movies for one link: the manager
\* afterwards and what is appended ("none": nothing, otherwise the kind of
\* the movie_info).
\* Douban: fetch and parse; a falsy movie_info is fetched and parsed again;
\* a truthy one reaches the missing _is_movie_info_complete and the link is
\* lost to the except branch.  IMDB: fetch and parse once.
ParseOne(p, in1, in2) ==
    LET n1 == in1[1].net
        r1 == get_page(n1, in1[2])
        i1 == ParseMovieDetail(r1.resp, in1[3])
        c1 == DetailCall(r1.raised, i1)
        f1 == FirstParse(r1.resp, i1)
        p1 == in1[1].pace \o PaceOf(n1, in1[2])
        once(add) == [net |-> r1.net, add |-> add, calls |-> <<c1>>,
                      first |-> f1, pace |-> p1]
    IN IF r1.raised
       THEN once("none")
       ELSE IF p = "douban"
            THEN IF i1 = "none"
                 THEN LET n2 == in2[1].net
                          r2 == get_page(n2, in2[2])
                          i2 == ParseMovieDetail(r2.resp, in2[3])
                          c2 == DetailCall(r2.raised, i2)
                      IN [net |-> r2.net,
                          add |-> IF ~r2.raised /\ HasTitle(i2)
                                  THEN i2 ELSE "none",
                          calls |-> <<c1, c2>>, first |-> f1,
                          pace |-> p1 \o in2[1].pace \o PaceOf(n2, in2[2])]
                 ELSE IF IsMovieInfoCompleteRaises(p)
                      THEN once("none")
                      ELSE IF HasTitle(i1) THEN once(i1) ELSE once("none")
            ELSE IF HasTitle(i1) THEN once(i1) ELSE once("none")

\* What a detail-page fetch meets: the attempts a KeyboardInterrupt cut
\* short and retrying swallowed, the outcome of the attempt that completes
\* and, when a page comes back, what parse_movie_detail makes of it.
DetailInputs(p, net) ==
    UNION {{<<s, in[1], in[2]>> :
              in \in {<<o, d>> \in OutcomesFor(s.net) \X DetailKinds(p) :
                         o # "page" => d = "none"}} :
           s \in Swallowed(net)}

\* The second fetch of a link: Douban only, after a falsy movie_info.
SecondDetailInputs(p, net, in1) ==
    LET r1 == get_page(in1[1].net, in1[2])
    IN IF p = "douban" /\ ~r1.raised
            /\ ParseMovieDetail(r1.resp, in1[3]) = "none"
       THEN DetailInputs(p, r1.net)
       ELSE {<<[net |-> r1.net, pace |-> <<>>], "page", "none">>}

\* Everything the loop body can do with one link.
ParseResults(p, net) ==
    UNION {{ParseOne(p, in1, in2) :
              in2 \in SecondDetailInputs(p, net, in1)} :
           in1 \in DetailInputs(p, net)}

\* ParseResults for every platform and manager state, indexed like
\* ListResultsTable; the plain iteration keeps no record of the fetches,
\* requests and delays.
ParseResultsTable ==
    [k \in BOOLEAN \X Platforms \X NetStates |->
       IF k[1] THEN ParseResults(k[2], k[3])
       ELSE {[r EXCEPT !.pace = <<>>, !.first = "idle"] : r \in ParseResults(k[2], k[3])}] @@ <<>>

\* movie_data.append(movie_info)
Append1(md, link, add) ==
    IF add = "none" THEN md ELSE md \o <<MovieInfo(link, add)>>

\* Off-by-one variant of the quota check: the loop stops one record late.
BatchFullOffByOne(md, max_count) == Len(md) > max_count

\* if len(movie_data) >= max_count: break
BatchFull(md, max_count) == Len(md) >= max_count

\* _parse_batch_movies: one iteration of the for loop (the list order of
\* list(new_links) is arbitrary, any unvisited link can be next).
ParseLinkBody(traced) ==
    /\ pc = "parse"
    /\ todo # {}
    /\ ~BatchFull(movie_data, remaining)
    /\ \E link \in todo :
         \E r \in ParseResultsTable[<<traced, platform, Net>>] :
            /\ SetNet(r.net)
            /\ movie_data' = Append1(movie_data, link, r.add)
            /\ hist' = HistFold(hist, r.calls)
            /\ pace' = IF traced THEN PaceFold(pace, <<"delay">> \o r.pace)
                       ELSE pace
            /\ last_parse' = IF traced
                              THEN [first |-> r.first,
                                    fetches |-> Len(r.calls),
                                    added |-> r.add # "none"]
                              ELSE last_parse
            /\ todo' = todo \ {link}
    /\ UNCHANGED <<modevars, fetchvars, auxvars>>
    /\ UNCHANGED <<jobvars, pc, all_movie_data, collected_links, batch_count,
                   cat_idx, page_idx, new_links, new_links_len, handed,
                   cleaned_data, result, exit, error_seen>>

\* The iteration as the job runs it; ParseLinkBody(TRUE) is the same
\* iteration with its fetches recorded in last_parse and pace.
ParseLink == ParseLinkBody(FALSE)

\* Variant that returns from the for loop at any time, with links of the
\* batch still unvisited.
BatchOverAnyTime(td, md, max_count) == TRUE

\* The for loop of _parse_batch_movies is over: every link was visited, or
\* the quota check left the loop.
BatchOver(td, md, max_count) == td = {} \/ BatchFull(md, max_count)

\* End of _parse_batch_movies and lines 98-111 of crawl_movies: the batch is
\* appended; at quota the loop is left, otherwise the job sleeps and the
\* while condition is evaluated again.
FinishParse ==
    /\ pc = "parse"
    /\ BatchOver(todo, movie_data, remaining)
    /\ all_movie_data' = all_movie_data \o movie_data
    /\ pc' = IF Len(all_movie_data') >= max_movies THEN "finalize" ELSE "loop"
    /\ todo' = {}
    /\ movie_data' = <<>>
    /\ last_parse' = NoParse
    /\ pace' = IF pc' = "loop" THEN PaceStep(pace, "delay") ELSE pace
    /\ UNCHANGED <<modevars, fetchvars, auxvars>>
    /\ UNCHANGED <<jobvars, netvars, collected_links, batch_count, cat_idx,
                   page_idx, new_links, new_links_len, handed, cleaned_data,
                   result, exit, error_seen,
                   hist>>

(***************************************************************************)
(* Cleaning, saving and the result (crawl_movies lines 113-148).           *)
(***************************************************************************)
\* final_movies = all_movie_data[:max_movies]
Prefix(s, n) == IF n <= 0 THEN <<>> ELSE SubSeq(s, 1, Min(n, Len(s)))

\* _clean_single_movie keeps a record or drops it.  Douban: float(rating)
\* raises for rating None and the record is dropped; IMDB: _clean_rating
\* maps a missing rating to None and the record (it has a title) is kept.
CleanKeeps(p, movie) == IF p = "douban" THEN movie.has_rating ELSE TRUE

RECURSIVE clean_movie_data(_, _)
clean_movie_data(p, raw) ==
    IF raw = <<>> THEN <<>>
    ELSE IF CleanKeeps(p, Head(raw))
         THEN <<Head(raw)>> \o clean_movie_data(p, Tail(raw))
         ELSE clean_movie_data(p, Tail(raw))

\* What save_processed_data meets.  Douban's DataProcessor has no such
\* method: the call raises AttributeError.  IMDB: "ok", "write_error" (an
\* exception inside its try, logged, the files saved so far are returned)
\* or "makedirs_error" (os.makedirs raises before the try).
SaveOutcomes(p) ==
    IF p = "douban" THEN {"no_method"}
    ELSE {"ok", "write_error", "makedirs_error"}

SaveRaises(sv) == sv \in {"no_method", "makedirs_error"}

\* Save outcomes in which the file system failed.
SaveFailures == {"write_error", "makedirs_error"}

\* Variant whose except branch raises the error again.
OuterExceptReraise == [caught |-> FALSE, result |-> <<>>]

\* except Exception as e: the error is logged and a failure dict is
\* returned; nothing is raised again.
OuterExcept == [caught |-> TRUE,
                result |-> <<[success |-> FALSE, data_count |-> 0]>>]

\* Lines 113-146: the result of the job.
Finalize ==
    /\ UNCHANGED pace
    /\ pc = "finalize"
    /\ IF all_movie_data # <<>>
       THEN LET final_movies == Prefix(all_movie_data, max_movies)
                cleaned == clean_movie_data(platform, final_movies)
            IN \E sv \in SaveOutcomes(platform) :
                 /\ cleaned_data' = cleaned
                 /\ hist' = IF sv \in SaveFailures THEN "other" ELSE hist
                 /\ IF SaveRaises(sv)
                    THEN /\ result' = OuterExcept.result
                         /\ exit' = IF OuterExcept.caught THEN exit ELSE "raised"
                         /\ error_seen' = TRUE
                    ELSE /\ result' = <<[success |-> TRUE,
                                         data_count |-> Len(cleaned)]>>
                         /\ UNCHANGED <<exit, error_seen>>
       ELSE /\ result' = <<[success |-> FALSE, data_count |-> 0]>>
            /\ UNCHANGED <<cleaned_data, exit, error_seen, hist>>
    /\ pc' = "finally"
    /\ UNCHANGED <<modevars, fetchvars, auxvars>>
    /\ UNCHANGED <<jobvars, netvars, all_movie_data, collected_links,
                   batch_count, cat_idx, page_idx, new_links, new_links_len,
                   todo, movie_data, handed, last_parse>>

\* SignalNets over the attempts of one loop body, for every manager state.
\* A body makes at most two get_page calls for a url or a link (Douban),
\* each of stop_max_attempt_number attempts.
SignalNetsTable ==
    [net \in NetStates |->
        SignalNets(net, stop_max_attempt_number + stop_max_attempt_number)]
    @@ <<>>

\* A KeyboardInterrupt (cancellation) that reaches the frame of
\* crawl_movies: it is no Exception, the except branch is skipped and the
\* finally block runs.  Nothing is returned: the locals of crawl_movies are
\* lost with the frame.
\*   In a loop body it comes out of get_page (the last attempt, or the
\* wait between two attempts) or out of a sleep of the crawler; the
\* attempts it and earlier signals cut short leave the manager in one of
\* SignalNets.
\*   In the lines after the loop it can arrive inside the except branch,
\* after the error was caught: only save_processed_data raises out of the
\* try, with records collected.
\*   In the finally block it arrives before, inside or after quit() of
\* close(), or between the two assignments that follow quit() (driver is
\* None, _driver_ready still as it was); the except of close() does not
\* catch it either: the job leaves at once and the result built so far is
\* not returned.
\*   The requests and delays the interrupted loop body issued before the
\* signal stay issued: with traced, pace is the pace after a cut of the
\* events of an iteration (its sleep, then those of its get_page calls), at
\* any point; driver.get was called only on a driver that is ready.
InterruptBody(traced) ==
    LET body ==
          IF /\ pc = "collect"
             /\ cat_idx <= Len(categories)
             /\ new_links_len < target_batch_links
             /\ page_idx < ListUrlCount(platform, categories[cat_idx],
                                        max_pages)
          THEN {ListPageSleep(page_idx) \o r.pace :
                  r \in ListResultsTable[<<TRUE, platform, Net>>]}
          ELSE IF pc = "parse" /\ todo # {}
                  /\ ~BatchFull(movie_data, remaining)
               THEN {<<"delay">> \o r.pace :
                       r \in ParseResultsTable[<<TRUE, platform, Net>>]}
               ELSE {<<>>}
        cuts == UNION {{SubSeq(ev, 1, k) : k \in 0..Len(ev)} : ev \in body}
        issued(ev) == \E i \in DOMAIN ev : ev[i] = "request"
    IN
    /\ pc \in {"loop", "collect", "parse", "finalize", "finally", "stream"}
    /\ pc' = IF pc \in {"finally", "stream"} THEN "done" ELSE "finally"
    /\ exit' = "interrupted"
    /\ result' = <<>>
    /\ cleaned_data' = <<>>
    /\ hist' = "other"
    /\ last_parse' = NoParse
    /\ all_movie_data' = <<>>
    /\ collected_links' = {}
    /\ batch_count' = 0
    /\ cat_idx' = 1
    /\ page_idx' = 0
    /\ new_links' = {}
    /\ new_links_len' = 0
    /\ todo' = {}
    /\ movie_data' = <<>>
    /\ handed' = [l \in Links |-> 0]
    /\ CASE pc = "finally" ->
              /\ \E q \in QuitOutcomes :
                   \E n \in {close(Net, q),
                             [close(Net, "ok") EXCEPT !.ready = driver_ready]} :
                       SetNet(n)
              /\ UNCHANGED pace
         [] pc \in {"collect", "parse"} ->
              \E n \in SignalNetsTable[Net] :
                 /\ SetNet(n)
                 /\ pace' \in
                      IF traced
                      THEN {PaceFold(pace, ev) :
                              ev \in {c \in cuts : issued(c) => n.ready}}
                      ELSE {pace}
         [] OTHER -> UNCHANGED <<netvars, pace>>
    /\ error_seen' \in
         IF /\ pc = "finalize"
            /\ all_movie_data # <<>>
            /\ \E sv \in SaveOutcomes(platform) : SaveRaises(sv)
         THEN {error_seen, TRUE}
         ELSE {error_seen}
    /\ UNCHANGED <<modevars, fetchvars, auxvars>>
    /\ UNCHANGED jobvars

\* The interrupt as the job meets it; InterruptBody(TRUE) is the same
\* interrupt with the requests and delays issued before it recorded in
\* pace.
Interrupt == InterruptBody(FALSE)

\* finally: self.network_manager.close(), then the job leaves, returning
\* the result or propagating the interrupt.
Finally ==
    /\ UNCHANGED pace
    /\ pc = "finally"
    /\ \E q \in QuitOutcomes : SetNet(close(Net, q))
    /\ exit' = IF exit = "none" THEN "returned" ELSE exit
    /\ pc' = "done"
    /\ UNCHANGED <<modevars, fetchvars, auxvars>>
    /\ UNCHANGED <<jobvars, all_movie_data, collected_links, batch_count,
                   cat_idx, page_idx, new_links, new_links_len, todo,
                   movie_data, handed, cleaned_data, result, error_seen,
                   hist, last_parse>>


\* The mode controller and the stand-alone manager are not in use.
ModeIdle ==
    /\ m_pc = "idle"
    /\ m_n = 0
    /\ m_i = 0
    /\ consecutive_fails = 0
    /\ failed_pages = 0
    /\ last_mode = "none"
    /\ ever_rendered = FALSE
    /\ direct_always_blocked = TRUE
    /\ last_outcome = "none"

FetchIdle ==
    /\ f_kind = "douban"
    /\ f_pc = "idle"
    /\ f_use_selenium = "none"
    /\ f_attempt = 0
    /\ f_result = None
    /\ f_sel_failed = FALSE
    /\ f_direct_tried = 0
    /\ f_calls = 0

\* self.platforms, in the order of the dict.
SupPlatforms == <<"douban", "imdb", "rotten_tomatoes">>

SupKeys == {SupPlatforms[i] : i \in 1..Len(SupPlatforms)}

\* No data processor call, delay computation, block check or supervisor
\* run is in progress.
NormIdle ==
    /\ n_platform = "douban"
    /\ n_raw = [id |-> "absent", title |-> "absent", rating |-> "absent",
                year |-> 0, poster_url |-> "absent"]
    /\ n_clock = 0
    /\ n_file = FALSE
    /\ n_out = <<>>

DelayIdle ==
    /\ d_kind = "collect"
    /\ d_a = 0
    /\ d_b = 0
    /\ d_win = <<>>
    /\ d_delay = <<>>

DetectIdle ==
    /\ b_resp = <<>>
    /\ b_verdict = "none"

\* The crawler instances of a multi-platform run, one per platform.
Jobs == Platforms
\* Identities of network manager objects; 0 is no manager yet.
ManagerIds == 1..Cardinality(Jobs)
JobLinks == 1..MaxJobLinks

InstIdle ==
    /\ i_manager = [j \in Jobs |-> 0]
    /\ i_driver = [m \in ManagerIds |-> None]
    /\ i_links = [j \in Jobs |-> {}]
    /\ i_data = [j \in Jobs |-> 0]
    /\ i_fails = [j \in Jobs |-> 0]
    /\ i_actor = None

SupIdle ==
    /\ s_pc = "idle"
    /\ s_enabled = {}
    /\ s_todo = <<>>
    /\ s_results = [k \in SupKeys |-> "unset"]
    /\ s_ran = {}
    /\ s_total = 0
    /\ s_sum = 0

\* A manager that has fetched nothing yet.
NetIdle ==
    /\ driver = 0
    /\ driver_ready = FALSE
    /\ live_sessions = {}
    /\ opened = 0

\* No job is running.
CrawlIdle ==
    /\ platform = "douban"
    /\ max_movies = 1
    /\ categories = <<"hot">>
    /\ max_pages = 1
    /\ pc = "idle"
    /\ all_movie_data = <<>>
    /\ collected_links = {}
    /\ batch_count = 0
    /\ cat_idx = 1
    /\ page_idx = 0
    /\ new_links = {}
    /\ new_links_len = 0
    /\ todo = {}
    /\ movie_data = <<>>
    /\ handed = [l \in Links |-> 0]
    /\ cleaned_data = <<>>
    /\ result = <<>>
    /\ exit = "none"
    /\ error_seen = FALSE
    /\ hist = "start"
    /\ last_parse = NoParse
    /\ pace = "cool"

\* A crawler right after construction, entered at the given method: "loop"
\* is the while loop of crawl_movies, "stream" the for loop of
\* _stream_crawl_category.
CrawlStart(entry) ==
    /\ ModeIdle
    /\ FetchIdle
    /\ NormIdle
    /\ DelayIdle
    /\ DetectIdle
    /\ InstIdle
    /\ SupIdle
    /\ platform \in Platforms
    /\ max_movies \in 1..MaxTarget
    /\ categories \in CategoryLists(platform)
    /\ max_pages \in 1..MaxPages
    /\ pc = entry
    /\ all_movie_data = <<>>
    /\ collected_links = {}
    /\ batch_count = 0
    /\ cat_idx = 1
    /\ page_idx = 0
    /\ new_links = {}
    /\ new_links_len = 0
    /\ todo = {}
    /\ movie_data = <<>>
    /\ handed = [l \in Links |-> 0]
    /\ driver = 0
    /\ driver_ready = FALSE
    /\ live_sessions = {}
    /\ opened = 0
    /\ cleaned_data = <<>>
    /\ result = <<>>
    /\ exit = "none"
    /\ error_seen = FALSE
    /\ hist = "start"
    /\ last_parse = NoParse
    /\ pace = "cool"

Init == CrawlStart("loop")

Next ==
    \/ Interrupt
    \/ Finally
    \/ Finalize
    \/ BeginBatch
    \/ NextCategory
    \/ FinishCollect
    \/ FinishParse
    \/ CollectPage
    \/ ParseLink

Spec == Init /\ [][Next]_vars

\* The job is scheduled until it leaves.
FairSpec == Spec /\ WF_vars(Next)

\* The same job with the fetches, requests and delays of its loop bodies
\* recorded in last_parse and pace.
NextTrace ==
    \/ InterruptBody(TRUE)
    \/ Finally
    \/ Finalize
    \/ BeginBatch
    \/ NextCategory
    \/ FinishCollect
    \/ FinishParse
    \/ CollectPageBody(TRUE)
    \/ ParseLinkBody(TRUE)

SpecTrace == Init /\ [][NextTrace]_vars

(***************************************************************************)
(* _stream_crawl_category (douban_crawler/crawler.py 385-459): the other   *)
(* method of the crawler that fetches list pages and detail pages.  It     *)
(* takes the list urls of one category (here those of the job's first      *)
(* category) and a quota.                                                  *)
(***************************************************************************)
\* One iteration of the for loop over category_urls.  The list page is
\* asked for with get_page(url, force_selenium=True); get_page(self, url,
\* use_selenium=None) has no such parameter, so every attempt of the retry
\* raises TypeError before the manager is touched and the TypeError comes
\* out of get_page.  The except of the loop body logs it and counts the
\* url as processed: no list is parsed and the inner for over the links,
\* with its get_page(link), is never entered.
StreamPage ==
    /\ pc = "stream"
    /\ Len(movie_data) < max_movies
    /\ page_idx < ListUrlCount(platform, categories[1], max_pages)
    /\ page_idx' = page_idx + 1
    /\ hist' = HistFold(hist, <<ListCall(TRUE, {})>>)
    /\ UNCHANGED pace
    /\ UNCHANGED <<modevars, fetchvars, auxvars>>
    /\ UNCHANGED <<jobvars, netvars, pc, all_movie_data, collected_links,
                   batch_count, cat_idx, new_links, new_links_len, todo,
                   movie_data, handed, cleaned_data, result, exit,
                   error_seen, last_parse>>

\* The for loop is over (the urls are exhausted, or the quota check breaks
\* out): return collected_movies, the list in movie_data.
StreamReturn ==
    /\ pc = "stream"
    /\ \/ Len(movie_data) >= max_movies
       \/ page_idx >= ListUrlCount(platform, categories[1], max_pages)
    /\ pc' = "done"
    /\ exit' = "returned"
    /\ UNCHANGED pace
    /\ UNCHANGED <<modevars, fetchvars, auxvars>>
    /\ UNCHANGED <<jobvars, netvars, all_movie_data, collected_links,
                   batch_count, cat_idx, page_idx, new_links, new_links_len,
                   todo, movie_data, handed, cleaned_data, result,
                   error_seen, hist, last_parse>>

\* A Douban or IMDB crawler running crawl_movies, or a Douban crawler
\* running _stream_crawl_category.
InitPhases ==
    \/ CrawlStart("loop")
    \/ CrawlStart("stream") /\ platform = "douban"

NextPhases ==
    \/ Next
    \/ StreamPage
    \/ StreamReturn

SpecPhases == InitPhases /\ [][NextPhases]_vars

(***************************************************************************)
(* _collect_movie_links (douban_crawler/crawler.py): the request strategy  *)
(* over a list of list-page urls.                                          *)
(***************************************************************************)
\* What one iteration of the loop meets.  The loop body has three ways
\* through it:
\*   "links"  get_page returned and parse_movie_list found links
\*   "empty"  get_page returned and parse_movie_list found no link
\*   "raise"  the body raised
\* The page is asked for with get_page(url, force_selenium=use_selenium),
\* and NetworkManager.get_page(self, url, use_selenium=None) takes no
\* force_selenium: every attempt of the retry raises TypeError and the
\* TypeError comes out of get_page.  Every iteration meets "raise".
PageOutcomes == {"raise"}

\* Variant that escalates one failure late.
UseSeleniumLate(cf) == cf >= 3

\* use_selenium = consecutive_fails >= 2
use_selenium(cf) == cf >= 2

\* The request mode the flag selects.
ModeOf(cf) == IF use_selenium(cf) THEN "rendered" ELSE "direct"

\* consecutive_fails after one iteration.
NextConsecutiveFails(cf, o) ==
    IF o = "links" THEN 0
    ELSE IF o = "empty"
         THEN IF cf + 1 >= max_consecutive_fails THEN 0 ELSE cf + 1
         ELSE cf + 1

\* failed_pages after one iteration.
NextFailedPages(fp, o) == IF o = "links" THEN fp ELSE fp + 1

\* One iteration of the for loop.
ModeVisit ==
    /\ m_pc = "run"
    /\ m_i < m_n
    /\ \E o \in PageOutcomes :
        LET mode == ModeOf(consecutive_fails)
        IN /\ last_mode' = mode
           /\ ever_rendered' = (ever_rendered \/ mode = "rendered")
           /\ direct_always_blocked' =
                (direct_always_blocked /\ (mode = "direct" => o # "links"))
           /\ consecutive_fails' = NextConsecutiveFails(consecutive_fails, o)
           /\ failed_pages' = NextFailedPages(failed_pages, o)
           /\ last_outcome' = o
    /\ m_i' = m_i + 1
    /\ UNCHANGED <<m_pc, m_n>>
    /\ UNCHANGED <<jobvars, netvars, crawlvars, fetchvars, auxvars>>

\* After the loop: success_rate divides by len(list_urls), which raises
\* ZeroDivisionError for an empty list.
ModeFinish ==
    /\ m_pc = "run"
    /\ m_i = m_n
    /\ m_pc' = IF m_n = 0 THEN "raised" ELSE "done"
    /\ UNCHANGED <<m_n, m_i, consecutive_fails, failed_pages, last_mode,
                   ever_rendered, direct_always_blocked, last_outcome>>
    /\ UNCHANGED <<jobvars, netvars, crawlvars, fetchvars, auxvars>>

\* A KeyboardInterrupt in one of the sleeps of the loop, or in the wait
\* between two attempts of get_page: no except Exception catches it, it
\* leaves _collect_movie_links.
ModeInterrupt ==
    /\ m_pc = "run"
    /\ m_pc' = "interrupted"
    /\ UNCHANGED <<m_n, m_i, consecutive_fails, failed_pages, last_mode,
                   ever_rendered, direct_always_blocked, last_outcome>>
    /\ UNCHANGED <<jobvars, netvars, crawlvars, fetchvars, auxvars>>

InitMode ==
    /\ CrawlIdle
    /\ NetIdle
    /\ FetchIdle
    /\ NormIdle
    /\ DelayIdle
    /\ DetectIdle
    /\ InstIdle
    /\ SupIdle
    /\ m_pc = "run"
    /\ m_n \in 0..MaxListUrls
    /\ m_i = 0
    /\ consecutive_fails = 0
    /\ failed_pages = 0
    /\ last_mode = "none"
    /\ ever_rendered = FALSE
    /\ direct_always_blocked = TRUE
    /\ last_outcome = "none"

NextMode ==
    \/ ModeVisit
    \/ ModeFinish
    \/ ModeInterrupt

SpecMode == InitMode /\ [][NextMode]_vars

(***************************************************************************)
(* get_page of the network managers, called on its own:                    *)
(*   "douban"           douban_crawler/network.py get_page                  *)
(*   "douban_rotation"  douban_crawler/network.py get_with_retry_and_rotation *)
(*   "imdb"             imdb_crawler/network.py get_page                    *)
(*   "imdb_new"         imdb_crawler/network_new.py get_page                *)
(*   "rt"               rotten_tomatoes_crawler/network.py get_page         *)
(***************************************************************************)
FetchKinds == {"douban", "douban_rotation", "imdb", "imdb_new", "rt"}

\* The use_selenium argument: omitted (None), True or False.
UseSeleniumArgs == {"omitted", "none", "true", "false"}

\* The value of the use_selenium parameter inside get_page: an omitted
\* argument takes the default of the signature, True for RTNetwork.get_page
\* and None for the other managers.
UseSeleniumParam(kind, arg) ==
    IF arg = "omitted" THEN IF kind = "rt" THEN "true" ELSE "none"
    ELSE arg

\* What one requests fetch meets: a page with blocking keywords, a
\* transport or HTTP error, or the page text.
RequestOutcomes == {"blocked", "error", "text"}

\* network_new._should_use_selenium: False on every branch.
ShouldUseSelenium == FALSE

\* network_new._get_with_requests: a blocked response and every exception
\* give None; nothing is raised.
GetWithRequests(oq) ==
    [resp |-> IF oq = "text" THEN "page" ELSE None, raised |-> FALSE]

\* One run of the body of network_new.get_page.  The except branch tries
\* the other way of fetching and re-raises when that raises too.
NewGetPageBody(net, use, o, oq) ==
    LET sel == IF use = "none" THEN ShouldUseSelenium ELSE use = "true"
    IN IF sel
       THEN LET r == GetWithSelenium(net, o)
            IN IF ~r.raised
               THEN [net |-> r.net, resp |-> r.resp, raised |-> FALSE,
                     sel_failed |-> r.resp = None, direct_tried |-> 0]
               ELSE LET q == GetWithRequests(oq)
                    IN [net |-> r.net, resp |-> q.resp, raised |-> q.raised,
                        sel_failed |-> TRUE, direct_tried |-> 1]
       ELSE LET q == GetWithRequests(oq)
            IN IF ~q.raised
               THEN [net |-> net, resp |-> q.resp, raised |-> FALSE,
                     sel_failed |-> FALSE, direct_tried |-> 0]
               ELSE LET r == GetWithSelenium(net, o)
                    IN [net |-> r.net, resp |-> r.resp, raised |-> r.raised,
                        sel_failed |-> (r.raised \/ r.resp = None),
                        direct_tried |-> 0]

\* Rotten Tomatoes _init_driver: self.driver is assigned as soon as
\* webdriver.Chrome returns; a later failure raises with it assigned.
RTInitDriver(net, o) ==
    IF o = "init_fail" \/ net.opened >= MaxSessions
    THEN [net |-> net, raised |-> TRUE]
    ELSE LET s == net.opened + 1
             started == [net EXCEPT !.driver = s, !.opened = s,
                                    !.live = net.live \cup {s}]
         IN [net |-> started, raised |-> o = "init_late_fail"]

\* No initialisation runs while self.driver is set.
RTOutcomesFor(net) ==
    IF net.driver # 0 THEN {"get_fail", "source_fail", "page"}
    ELSE FetchOutcomes

\* Rotten Tomatoes _get_page_selenium: exceptions propagate.
RTGetPageSelenium(net, o) ==
    LET i == IF net.driver # 0 THEN [net |-> net, raised |-> FALSE]
             ELSE RTInitDriver(net, o)
    IN IF i.raised THEN [net |-> i.net, resp |-> None, raised |-> TRUE]
       ELSE IF o = "page"
            THEN [net |-> i.net, resp |-> "page", raised |-> FALSE]
            ELSE [net |-> i.net, resp |-> None, raised |-> TRUE]

\* Rotten Tomatoes _get_page_requests: no blocked-page test; an HTTP or
\* transport error raises.
RTGetPageRequests(oq) ==
    IF oq = "error" THEN [resp |-> None, raised |-> TRUE]
    ELSE [resp |-> IF oq = "text" THEN "page" ELSE "blocked_page",
          raised |-> FALSE]

\* Rotten Tomatoes _restart_driver: quit the driver, start a new one; any
\* exception ends the restart with self.driver = None.
RTRestartDriver(net, q, ro) ==
    IF net.driver # 0 /\ q # "ok"
    THEN [net EXCEPT !.driver = 0,
                     !.live = IF q = "raised_gone"
                              THEN net.live \ {net.driver} ELSE net.live]
    ELSE LET quitted == [net EXCEPT !.driver = 0,
                                    !.live = net.live \ {net.driver}]
             i == RTInitDriver(quitted, ro)
         IN IF i.raised THEN [i.net EXCEPT !.driver = 0] ELSE i.net

\* The classes of exception get_page tells apart.
ExceptionClasses == {"webdriver", "other"}

\* Rotten Tomatoes close_driver: self.driver = None in the finally.
close_driver(net, q) ==
    IF net.driver = 0 THEN net
    ELSE [net EXCEPT !.driver = 0,
                     !.live = IF q = "raised_open"
                              THEN net.live ELSE net.live \ {net.driver}]

\* A caller starts a get_page call.
FetchCall ==
    /\ f_pc \in {"idle", "returned", "raised"}
    /\ f_calls < MaxCalls
    /\ f_calls' = f_calls + 1
    /\ \E arg \in UseSeleniumArgs :
         f_use_selenium' = UseSeleniumParam(f_kind, arg)
    /\ f_pc' = "attempt"
    /\ f_attempt' = 0
    /\ f_result' = None
    /\ f_sel_failed' = FALSE
    /\ f_direct_tried' = 0
    /\ UNCHANGED f_kind
    /\ UNCHANGED <<jobvars, netvars, crawlvars, modevars, auxvars>>

\* douban_crawler and imdb_crawler network.py get_page, retries included.
SeleniumGetPage ==
    /\ f_pc = "attempt"
    /\ f_kind \in {"douban", "imdb"}
    /\ \E o \in OutcomesFor(Net) :
        LET r == get_page(Net, o)
        IN /\ SetNet(r.net)
           /\ f_attempt' = r.attempts
           /\ f_sel_failed' = (r.raised \/ r.resp = None)
           /\ f_result' = r.resp
           /\ f_pc' = IF r.raised THEN "raised" ELSE "returned"
    /\ UNCHANGED <<f_kind, f_use_selenium, f_direct_tried, f_calls>>
    /\ UNCHANGED <<jobvars, crawlvars, modevars, auxvars>>

\* One round of the for loop of get_with_retry_and_rotation.
RotationAttempt ==
    /\ f_pc = "attempt"
    /\ f_kind = "douban_rotation"
    /\ \E o \in OutcomesFor(Net) :
        LET r == get_page(Net, o)
        IN /\ SetNet(r.net)
           /\ f_sel_failed' = (f_sel_failed \/ r.raised \/ r.resp = None)
           /\ IF ~r.raised
              THEN /\ f_result' = r.resp
                   /\ f_pc' = "returned"
                   /\ UNCHANGED f_attempt
              ELSE IF f_attempt = max_attempts - 1
                   THEN /\ f_pc' = "raised"
                        /\ UNCHANGED <<f_result, f_attempt>>
                   ELSE /\ f_attempt' = f_attempt + 1
                        /\ UNCHANGED <<f_result, f_pc>>
    /\ UNCHANGED <<f_kind, f_use_selenium, f_direct_tried, f_calls>>
    /\ UNCHANGED <<jobvars, crawlvars, modevars, auxvars>>

\* One attempt of network_new.get_page under
\* @retry(stop_max_attempt_number=MAX_RETRY_TIMES).
NewGetPageAttempt ==
    /\ f_pc = "attempt"
    /\ f_kind = "imdb_new"
    /\ \E o \in OutcomesFor(Net), oq \in RequestOutcomes :
        LET r == NewGetPageBody(Net, f_use_selenium, o, oq)
        IN /\ SetNet(r.net)
           /\ f_sel_failed' = (f_sel_failed \/ r.sel_failed)
           /\ f_direct_tried' = f_direct_tried + r.direct_tried
           /\ IF ~r.raised
              THEN /\ f_result' = r.resp
                   /\ f_pc' = "returned"
                   /\ UNCHANGED f_attempt
              ELSE IF f_attempt + 1 >= MAX_RETRY_TIMES
                   THEN /\ f_pc' = "raised"
                        /\ UNCHANGED <<f_result, f_attempt>>
                   ELSE /\ f_attempt' = f_attempt + 1
                        /\ UNCHANGED <<f_result, f_pc>>
    /\ UNCHANGED <<f_kind, f_use_selenium, f_calls>>
    /\ UNCHANGED <<jobvars, crawlvars, modevars, auxvars>>

\* One round of the for loop of the Rotten Tomatoes get_page.  A
\* WebDriverException restarts the driver; after the last round the loop
\* ends and None is returned.
RTGetPageAttempt ==
    /\ f_pc = "attempt"
    /\ f_kind = "rt"
    /\ \E o \in RTOutcomesFor(Net), oq \in RequestOutcomes,
          c \in ExceptionClasses, q \in QuitOutcomes,
          ro \in {"init_fail", "init_late_fail", "page"} :
        LET sel == f_use_selenium = "true"
            r == IF sel THEN RTGetPageSelenium(Net, o)
                 ELSE [net |-> Net] @@ RTGetPageRequests(oq)
            last == ~(f_attempt < RETRY_TIMES - 1)
        IN /\ f_sel_failed' = (f_sel_failed \/ (sel /\ r.raised))
           /\ IF ~r.raised
              THEN /\ SetNet(r.net)
                   /\ f_result' = r.resp
                   /\ f_pc' = "returned"
                   /\ UNCHANGED f_attempt
              ELSE /\ SetNet(IF sel /\ c = "webdriver"
                             THEN RTRestartDriver(r.net, q, ro)
                             ELSE r.net)
                   /\ IF last
                      THEN /\ f_result' = None
                           /\ f_pc' = "returned"
                           /\ UNCHANGED f_attempt
                      ELSE /\ f_attempt' = f_attempt + 1
                           /\ UNCHANGED <<f_result, f_pc>>
    /\ UNCHANGED <<f_kind, f_use_selenium, f_direct_tried, f_calls>>
    /\ UNCHANGED <<jobvars, crawlvars, modevars, auxvars>>

\* The caller closes the manager: close, or close_driver for Rotten
\* Tomatoes.
FetchClose ==
    /\ f_pc \in {"returned", "raised"}
    /\ \E q \in QuitOutcomes :
        SetNet(IF f_kind = "rt" THEN close_driver(Net, q) ELSE close(Net, q))
    /\ f_pc' = "closed"
    /\ UNCHANGED <<f_kind, f_use_selenium, f_attempt, f_result, f_sel_failed,
                   f_direct_tried, f_calls>>
    /\ UNCHANGED <<jobvars, crawlvars, modevars, auxvars>>

InitFetch ==
    /\ CrawlIdle
    /\ NetIdle
    /\ ModeIdle
    /\ NormIdle
    /\ DelayIdle
    /\ DetectIdle
    /\ InstIdle
    /\ SupIdle
    /\ f_kind \in FetchKinds
    /\ f_pc = "idle"
    /\ f_use_selenium = "none"
    /\ f_attempt = 0
    /\ f_result = None
    /\ f_sel_failed = FALSE
    /\ f_direct_tried = 0
    /\ f_calls = 0

NextFetch ==
    \/ FetchCall
    \/ SeleniumGetPage
    \/ RotationAttempt
    \/ NewGetPageAttempt
    \/ RTGetPageAttempt
    \/ FetchClose

SpecFetch == InitFetch /\ [][NextFetch]_vars

(***************************************************************************)
(* Properties of the batch loop.                                           *)

(***************************************************************************)
(* The delay windows.  Lengths of time are in tenths of a second, so that  *)
(* the factors 1.5 and 2.5 stay integers.                                  *)
(***************************************************************************)

\* The window _collect_movie_links sleeps in before a request that follows
\* cf consecutive failures: random.uniform draws from [lo, hi].
CollectWindowShrinking(cf) ==
    [lo |-> (DELAY_MIN * 10) \div (1 + cf), hi |-> (DELAY_MAX * 10) \div (1 + cf)]

CollectWindow(cf) ==
    IF cf > 0
    THEN [lo |-> DELAY_MIN * (1 + cf) * 10, hi |-> DELAY_MAX * (1 + cf) * 10]
    ELSE [lo |-> DELAY_MIN * 10, hi |-> DELAY_MAX * 10]

\* _smart_delay begins with self._request_count += 1, and no code of the
\* repository assigns _request_count (or _last_request_time) to a
\* NetworkManager: the statement raises AttributeError and no window is
\* computed.
SmartDelay == "AttributeError"

\* Values random.uniform(lo, hi) can return: the two ends and the middle.
Draws(w) == {w.lo, (w.lo + w.hi) \div 2, w.hi}

\* The counts of one kind: consecutive failures start at 0; a manager
\* holds no request count, 0 stands for its absence.
PressureCounts(kind) ==
    IF kind = "collect" THEN 0..MaxPressure ELSE {0}

\* _collect_movie_links: compute the window and draw a delay for each of
\* the two counts.  _smart_delay: the call raises.
DelayCompute ==
    /\ d_delay = <<>>
    /\ IF d_kind = "smart"
       THEN /\ d_delay' = <<SmartDelay>>
            /\ UNCHANGED d_win
       ELSE /\ d_win' = <<CollectWindow(d_a), CollectWindow(d_b)>>
            /\ \E x \in Draws(CollectWindow(d_a)) :
               \E y \in Draws(CollectWindow(d_b)) :
                   d_delay' = <<x, y>>
    /\ UNCHANGED <<d_kind, d_a, d_b>>
    /\ UNCHANGED <<corevars, normvars, detectvars, supvars, instvars>>

InitDelay ==
    /\ CrawlIdle
    /\ NetIdle
    /\ ModeIdle
    /\ FetchIdle
    /\ NormIdle
    /\ DetectIdle
    /\ InstIdle
    /\ SupIdle
    /\ d_kind \in {"collect", "smart"}
    /\ d_a \in PressureCounts(d_kind)
    /\ d_b \in PressureCounts(d_kind)
    /\ d_a <= d_b
    /\ d_win = <<>>
    /\ d_delay = <<>>

NextDelay == DelayCompute

SpecDelay == InitDelay /\ [][NextDelay]_vars

(***************************************************************************)
(* The block checks of the IMDB crawler: _is_blocked_response on the       *)
(* response of a request, then the checks parse_movie_list makes on the    *)
(* text that was let through.                                              *)
(***************************************************************************)

BlockedStatus == {403, 429, 503}

\* The responses: none at all, or a status, a content length and whether
\* the content holds one of blocked_keywords and whether its <title> holds
\* one of the parser's keywords.  Content of length 0 holds no keyword.
Responses ==
    {r \in [missing : BOOLEAN, status : {200, 403, 404, 429, 503},
            length : {0, MinContentLength - 1, MinContentLength,
                      2 * MinContentLength},
            keyword : BOOLEAN, title_keyword : BOOLEAN] :
        /\ r.length = 0 => (~r.keyword /\ ~r.title_keyword)
        /\ r.missing => (r.status = 200 /\ r.length = 0)}

\* bool(response): None is false, and a requests.Response is true exactly
\* when its status is below 400 (Response.__bool__ returns self.ok).
Truthy(r) == ~r.missing /\ r.status < 400

\* IMDBNetworkManager._is_blocked_response
_is_blocked_response(r) ==
    IF ~Truthy(r) THEN TRUE
    ELSE IF r.status \in BlockedStatus THEN TRUE
    ELSE r.keyword

\* The checks at the head of IMDBPageParser.parse_movie_list, on the text
\* of a response that was not blocked: the title keywords, then the length.
ParserVerdict(r) ==
    IF r.title_keyword THEN "Blocked"
    ELSE IF r.length < MinContentLength THEN "Empty"
    ELSE "Ok"

\* The verdict on a response.
Classify(r) ==
    IF _is_blocked_response(r) THEN "Blocked" ELSE ParserVerdict(r)

DetectClassify ==
    /\ b_verdict = "none"
    /\ b_verdict' = Classify(b_resp)
    /\ UNCHANGED b_resp
    /\ UNCHANGED <<corevars, normvars, delayvars, supvars, instvars>>

InitDetect ==
    /\ CrawlIdle
    /\ NetIdle
    /\ ModeIdle
    /\ FetchIdle
    /\ NormIdle
    /\ DelayIdle
    /\ InstIdle
    /\ SupIdle
    /\ b_resp \in Responses
    /\ b_verdict = "none"

NextDetect == DetectClassify

SpecDetect == InitDetect /\ [][NextDetect]_vars

(***************************************************************************)
(* The data processors, on one raw record.  A field of the raw record is   *)
(* "absent" when the dict has no such key; the title "  " is blank but not *)
(* empty; the rating "none" is the None the detail parser stores when the  *)
(* page shows no rating, the other ratings are the numbers they spell.     *)
(***************************************************************************)

NormPlatforms == {"douban", "imdb", "rt"}

\* Years a raw record can carry: 0 stands for no year (a missing key or
\* None), the others lie around the ends of the accepted range.
RawYears ==
    {0, MIN_YEAR - 1, MIN_YEAR, CurrentYear + YEAR_SLACK,
     CurrentYear + YEAR_SLACK + 1}

RawRecords ==
    [id : {"absent", "", "id"},
     title : {"absent", "", "  ", "T"},
     rating : {"absent", "none", "0.0", "8.5", "11.0"},
     year : RawYears,
     poster_url : {"absent", "url"}]

\* bool(movie.get(field)): a missing key gives None, and "" is false.
TruthyField(v) == v \notin {"absent", ""}

\* bool(movie): a dict without keys is false.
RawIsEmpty(raw) ==
    /\ raw.id = "absent"
    /\ raw.title = "absent"
    /\ raw.rating = "absent"
    /\ raw.year = 0
    /\ raw.poster_url = "absent"

\* str.strip() / re.sub(r'\s+', ' ', ...).strip() on a present string.
Strip(v) == IF v = "  " THEN "" ELSE v

\* The result for a record that is dropped.
Rejected ==
    [accepted |-> FALSE, id |-> None, title |-> None, rating |-> None,
     year |-> 0, poster_path |-> None, crawl_time |-> 0 - 1]

DownloadOutcomes == {"ok", "fail"}

\* _download_poster(poster_url, id): no url or no id gives None; a file
\* already on disk gives its path; otherwise the image is requested and
\* the path is returned when the request succeeds.
_download_poster(url, id, file, dl) ==
    IF url = "absent" \/ id = "" THEN [path |-> None, file |-> file]
    ELSE IF file THEN [path |-> "path", file |-> TRUE]
    ELSE IF dl = "ok" THEN [path |-> "path", file |-> TRUE]
    ELSE [path |-> None, file |-> FALSE]

\* DataProcessor._is_valid_movie (Douban)
_is_valid_movie(raw) ==
    TruthyField(raw.id) \/ (TruthyField(raw.title) /\ Strip(raw.title) # "")

\* DataProcessor._clean_single_movie (Douban): movie['douban_id'] and
\* movie['title'] raise KeyError for a missing key and float(None) raises
\* TypeError; the except branch returns None.  The poster is fetched after
\* the fields were built.
DoubanCleanSingle(raw, file, dl) ==
    IF raw.id = "absent" \/ raw.title = "absent" \/ raw.rating = "none"
    THEN [out |-> Rejected, file |-> file]
    ELSE LET d == _download_poster(raw.poster_url, raw.id, file, dl)
         IN [out |-> [accepted |-> TRUE, id |-> raw.id,
                      title |-> Strip(raw.title),
                      rating |-> IF raw.rating = "absent" THEN "0.0"
                                 ELSE raw.rating,
                      year |-> raw.year,
                      poster_path |-> d.path, crawl_time |-> 0 - 1],
             file |-> d.file]

\* DataProcessor.clean_movie_data (Douban), for one movie.
DoubanClean(raw, file, dl) ==
    IF RawIsEmpty(raw) \/ ~_is_valid_movie(raw)
    THEN [out |-> Rejected, file |-> file]
    ELSE DoubanCleanSingle(raw, file, dl)

\* IMDBDataProcessor._clean_string
_clean_string(v) == IF ~TruthyField(v) THEN "" ELSE Strip(v)

\* The ratings within [0, 10] among the values of the model.
RatingInRange(v) == v \in {"0.0", "8.5"}

\* IMDBDataProcessor._clean_rating: "if not value: return None" takes the
\* rating 0.0 for a missing one; a rating outside [0, 10] gives None too.
_clean_rating(v) ==
    IF v \in {"absent", "none", "0.0"} THEN None
    ELSE IF RatingInRange(v) THEN v
    ELSE None

\* IMDBDataProcessor._clean_year: None (0) for a missing year and for one
\* outside [1880, current year + 2].
_clean_year(y, now) ==
    IF y = 0 THEN 0
    ELSE IF MIN_YEAR <= y /\ y <= now + YEAR_SLACK THEN y
    ELSE 0

\* RTDataProcessor._parse_int: the integer, whatever its size.
_parse_int(y) == y

\* IMDBDataProcessor._clean_single_movie: the poster is fetched and the
\* time of the call is recorded while the fields are built, before the
\* check of title and imdb_id.
IMDBCleanSingle(raw, clock, file, dl) ==
    LET id == _clean_string(raw.id)
        title == _clean_string(raw.title)
        d == _download_poster(raw.poster_url, id, file, dl)
    IN IF title = "" /\ id = ""
       THEN [out |-> Rejected, file |-> d.file]
       ELSE [out |-> [accepted |-> TRUE, id |-> id, title |-> title,
                      rating |-> _clean_rating(raw.rating),
                      year |-> _clean_year(raw.year, CurrentYear),
                      poster_path |-> d.path, crawl_time |-> clock],
             file |-> d.file]

\* IMDBDataProcessor.clean_movie_data, for one movie.
IMDBClean(raw, clock, file, dl) ==
    IF RawIsEmpty(raw) THEN [out |-> Rejected, file |-> file]
    ELSE IMDBCleanSingle(raw, clock, file, dl)

\* RTDataProcessor._validate_movie_data: rt_id and title are both required.
_validate_movie_data(raw) == TruthyField(raw.id) /\ TruthyField(raw.title)

\* RTDataProcessor._clean_text: None for an empty or blank text.
RTCleanText(v) == IF ~TruthyField(v) \/ Strip(v) = "" THEN None ELSE v

\* RTDataProcessor._standardize_movie_data: rating fields are read only
\* from a dict, and posters are not downloaded (DOWNLOAD_POSTERS = False).
_standardize_movie_data(raw) ==
    [accepted |-> TRUE, id |-> raw.id, title |-> RTCleanText(raw.title),
     rating |-> None, year |-> _parse_int(raw.year), poster_path |-> None,
     crawl_time |-> 0 - 1]

\* RTDataProcessor._clean_data, for one movie.
RTClean(raw, file) ==
    IF RawIsEmpty(raw) \/ ~_validate_movie_data(raw)
    THEN [out |-> Rejected, file |-> file]
    ELSE [out |-> _standardize_movie_data(raw), file |-> file]

Normalize(p, raw, clock, file, dl) ==
    IF p = "douban" THEN DoubanClean(raw, file, dl)
    ELSE IF p = "imdb" THEN IMDBClean(raw, clock, file, dl)
    ELSE RTClean(raw, file)

\* One call of the data processor on the raw record.
NormalizeCall ==
    /\ Len(n_out) < MaxNormCalls
    /\ \E dl \in DownloadOutcomes :
        LET r == Normalize(n_platform, n_raw, n_clock, n_file, dl)
        IN /\ n_out' = Append(n_out, r.out)
           /\ n_file' = r.file
    /\ UNCHANGED <<n_platform, n_raw, n_clock>>
    /\ UNCHANGED <<corevars, delayvars, detectvars, supvars, instvars>>

\* Time passes between two calls.
ClockTick ==
    /\ n_clock < MaxClock
    /\ n_clock' = n_clock + 1
    /\ UNCHANGED <<n_platform, n_raw, n_file, n_out>>
    /\ UNCHANGED <<corevars, delayvars, detectvars, supvars, instvars>>

\* DataProcessor.save_database_format (Douban) on the list a call returned,
\* which holds its one record at index 0: _rename_poster_with_custom_id
\* returns at once for a record without poster_path or whose file is
\* missing.  Otherwise the old path (absolute) differs from the new one
\* (poster_dir/1.jpg): the file is renamed, or removed when that name is
\* taken, so that the file _download_poster looks for, <douban_id>.jpg, is
\* gone, and poster_path of the record is rewritten in place.  A record
\* saved before names poster_dir/1.jpg already and nothing happens.
SaveDatabaseFormat ==
    /\ n_platform = "douban"
    /\ \E k \in 1..Len(n_out) :
        /\ n_out[k].accepted
        /\ IF n_out[k].poster_path = "path" /\ n_file
           THEN /\ n_file' = FALSE
                /\ n_out' = [n_out EXCEPT ![k].poster_path = "custom_path"]
           ELSE UNCHANGED <<n_file, n_out>>
    /\ UNCHANGED <<n_platform, n_raw, n_clock>>
    /\ UNCHANGED <<corevars, delayvars, detectvars, supvars, instvars>>

InitNorm ==
    /\ CrawlIdle
    /\ NetIdle
    /\ ModeIdle
    /\ FetchIdle
    /\ DelayIdle
    /\ DetectIdle
    /\ InstIdle
    /\ SupIdle
    /\ n_platform \in NormPlatforms
    /\ n_raw \in RawRecords
    /\ n_clock = 0
    /\ n_file \in BOOLEAN
    /\ n_out = <<>>

NextNorm ==
    \/ NormalizeCall
    \/ SaveDatabaseFormat
    \/ ClockTick

SpecNorm == InitNorm /\ [][NextNorm]_vars

(***************************************************************************)
(* MultiPlatformCrawler.multi_platform_crawl: the jobs of the enabled      *)
(* platforms, one after the other.  A job is given by the way it ends.     *)
(***************************************************************************)

\* enabled_platforms: the enabled keys in the order of the dict.
RECURSIVE EnabledFrom(_, _)
EnabledFrom(i, enabled) ==
    IF i > Len(SupPlatforms) THEN <<>>
    ELSE IF SupPlatforms[i] \in enabled
         THEN <<SupPlatforms[i]>> \o EnabledFrom(i + 1, enabled)
         ELSE EnabledFrom(i + 1, enabled)

\* RTCrawler (rotten_tomatoes_crawler/crawler.py) is imported by the
\* launcher and is not among the sources.  Its job is taken from the job
\* contract: it ends with a result that carries a success flag and the
\* records collected (the list the launcher reads as result['data']),
\* partial data included when it failed; it can raise where the contract
\* is not kept, and it can be interrupted.
RTJobOutcomes == {"success", "failure", "raised", "interrupted"}

\* Number of records in the result of a Rotten Tomatoes job.
RTRecordCounts == 0..MaxTarget

\* How crawler_class(), get_supported_categories() and crawl_movies of a
\* platform can end inside _crawl_platform: a result with success True, a
\* result with success False, an Exception, or a KeyboardInterrupt.
\*   douban: crawl_movies(['hot']) ends in the failure dict (nothing was
\* collected, or save_processed_data is missing); the constructor raises
\* when os.makedirs of DataProcessor.__init__ does.
\*   imdb: get_supported_categories reads IMDBConfig.CRAWL_CATEGORIES,
\* which IMDBConfig does not define: AttributeError, before crawl_movies.
JobOutcomes(key) ==
    CASE key = "douban" -> {"failure", "raised", "interrupted"}
      [] key = "imdb"   -> {"raised", "interrupted"}
      [] OTHER          -> RTJobOutcomes

\* Variant of _crawl_platform that lets the exception of a job through.
CrawlPlatformReraise(o) ==
    IF o = "raised" THEN [raised |-> TRUE, result |-> None]
    ELSE [raised |-> FALSE, result |-> o]

\* _crawl_platform for an enabled platform: the result dict of the job, or
\* None when the job raised an Exception, which is logged and not raised
\* again.
_crawl_platform(o) ==
    IF o = "raised" THEN [raised |-> FALSE, result |-> None]
    ELSE [raised |-> FALSE, result |-> o]

\* Number of entries of result['data']: the result dicts of the Douban and
\* IMDB jobs have no 'data' key.
DataLens(key) ==
    IF key = "rotten_tomatoes" THEN RTRecordCounts ELSE {0}

\* Variant that counts the data of every result that came back.
TotalMoviesAnyResult(total, res, n) ==
    IF res # None THEN total + n ELSE total

\* if result and result.get('success'):
\*     total_movies += len(result.get('data', []))
TotalMovies(total, res, n) ==
    IF res # None /\ res = "success" THEN total + n ELSE total

\* Lines 131-144: no enabled platform, or no movie count, returns at once.
SupStart ==
    /\ s_pc = "start"
    /\ \E count \in {None, "n"} :
        IF s_enabled = {} \/ count = None
        THEN /\ s_pc' = "returned"
             /\ UNCHANGED s_todo
        ELSE /\ s_pc' = "loop"
             /\ s_todo' = EnabledFrom(1, s_enabled)
    /\ UNCHANGED <<s_enabled, s_results, s_ran, s_total, s_sum>>
    /\ UNCHANGED <<corevars, normvars, delayvars, detectvars, instvars>>

\* Lines 151-164: one iteration of the loop over enabled_platforms.
SupCrawl ==
    /\ s_pc = "loop"
    /\ s_todo # <<>>
    /\ LET key == Head(s_todo)
       IN \E o \in JobOutcomes(key) : \E n \in DataLens(key) :
            LET r == _crawl_platform(o)
            IN /\ s_ran' = s_ran \cup {key}
               /\ IF o = "interrupted"
                  THEN /\ s_pc' = "aborted"
                       /\ UNCHANGED <<s_todo, s_results, s_total, s_sum>>
                  ELSE IF r.raised
                  THEN /\ s_pc' = "raised"
                       /\ UNCHANGED <<s_todo, s_results, s_total, s_sum>>
                  ELSE /\ s_results' = [s_results EXCEPT ![key] = r.result]
                       /\ s_total' = TotalMovies(s_total, r.result, n)
                       /\ s_sum' = IF o = "success"
                                   THEN s_sum + n ELSE s_sum
                       /\ s_todo' = Tail(s_todo)
                       /\ UNCHANGED s_pc
    /\ UNCHANGED s_enabled
    /\ UNCHANGED <<corevars, normvars, delayvars, detectvars, instvars>>

\* Lines 166-173: the summary after the loop.
SupFinish ==
    /\ s_pc = "loop"
    /\ s_todo = <<>>
    /\ s_pc' = "done"
    /\ UNCHANGED <<s_enabled, s_todo, s_results, s_ran, s_total, s_sum>>
    /\ UNCHANGED <<corevars, normvars, delayvars, detectvars, instvars>>

InitSup ==
    /\ CrawlIdle
    /\ NetIdle
    /\ ModeIdle
    /\ FetchIdle
    /\ NormIdle
    /\ DelayIdle
    /\ DetectIdle
    /\ InstIdle
    /\ s_pc = "start"
    /\ s_enabled \in SUBSET SupKeys
    /\ s_todo = <<>>
    /\ s_results = [k \in SupKeys |-> "unset"]
    /\ s_ran = {}
    /\ s_total = 0
    /\ s_sum = 0

NextSup ==
    \/ SupStart
    \/ SupFinish
    \/ SupCrawl

SpecSup == InitSup /\ [][NextSup]_vars

(***************************************************************************)
\* C1: quota invariant.  The records collected so far (those of finished
\* batches plus those of the batch in progress) never exceed max_movies,
\* and neither do the cleaned records nor the count in the result.
C1_QuotaInvariant ==
    /\ Len(all_movie_data) + Len(movie_data) <= max_movies
    /\ Len(cleaned_data) <= max_movies
    /\ result # <<>> => result[1].data_count <= max_movies

\* a job that reached its quota in its second batch or later
C1_Witness ==
    /\ pc = "done"
    /\ batch_count >= 2
    /\ Len(all_movie_data) = max_movies

\* C2 (as claimed): the loop of crawl_movies is left only when the quota
\* is reached or a discovery batch returned no new link.
C2_StopsOnlyAtQuotaOrEmptyBatch ==
    [][(pc \in {"loop", "collect", "parse"}
          /\ pc' \notin {"loop", "collect", "parse"})
            => \/ Len(all_movie_data') >= max_movies
               \/ (pc = "collect" /\ new_links = {})]_vars

\* C2 (amended): termination.  The job eventually leaves; it never runs
\* more batches than there are link strings plus one (every batch but the
\* last adds a link to collected_links); and the loop is left only at
\* quota, after a discovery batch without new links, or by a
\* KeyboardInterrupt that reaches crawl_movies.
C2_Termination ==
    /\ <>(pc = "done")
    /\ [](batch_count <= Cardinality(Links) + 1)
    /\ [][(pc \in {"loop", "collect", "parse"}
              /\ pc' \notin {"loop", "collect", "parse"})
            => \/ Len(all_movie_data') >= max_movies
               \/ (pc = "collect" /\ new_links = {})
               \/ exit' = "interrupted"]_vars

\* a job that ended below quota on an empty batch after a non-empty one
C2_Witness ==
    /\ pc = "done"
    /\ exit = "returned"
    /\ batch_count >= 2
    /\ collected_links # {}
    /\ Len(all_movie_data) < max_movies

C4_LinkHandedOnce ==
    /\ \A l \in Links : handed[l] <= 1
    /\ \A l \in Links : handed[l] >= 1 <=> l \in collected_links

\* a second batch is being extracted while an earlier batch's link is in
\* the seen set
C4_Witness ==
    /\ pc = "parse"
    /\ batch_count >= 2
    /\ todo # {}
    /\ \E l \in collected_links : l \notin todo /\ handed[l] = 1

\* C5 (as claimed): a job always ends by returning a result object; nothing
\* is raised to its caller.
C5_AlwaysReturns ==
    pc = "done" => (exit = "returned" /\ result # <<>>)

\* C5 (amended): no Exception leaves crawl_movies, and a job that is not
\* ended by a KeyboardInterrupt leaves by returning a result with its
\* success flag and count, also after an error reached the outer except.
C5_AlwaysReturnsResult ==
    /\ exit # "raised"
    /\ (pc = "done" /\ exit # "interrupted") =>
          /\ exit = "returned"
          /\ result # <<>>
          /\ result[1].success \in BOOLEAN
          /\ result[1].data_count \in 0..max_movies

\* a job whose saving step failed and that returned a result
C5_Witness ==
    /\ pc = "done"
    /\ error_seen
    /\ exit = "returned"
    /\ result # <<>>

\* C6 (as claimed): a job that ended through an error after records were
\* collected reports those records in its result.
C6_PartialDataReported ==
    (pc = "done" /\ error_seen /\ exit = "returned" /\ all_movie_data # <<>>)
        => result[1].data_count = Len(all_movie_data)

\* C7 (as claimed): when a job has left, every browser session its manager
\* started is quit, and the manager does not hold a driver marked ready.
C7_GuaranteedRelease ==
    pc = "done" =>
        /\ live_sessions = {}
        /\ ~(driver # 0 /\ driver_ready)

(***************************************************************************)
(* Properties of the request strategy and of get_page.                     *)
(***************************************************************************)
\* C8: mode escalation.  While every Direct fetch has failed, the third
\* call at the latest is made in Rendered mode (two failed calls escalate),
\* and a call made in Rendered mode is never followed by a call made in
\* Direct mode.
C8_ModeEscalation ==
    [][(m_i' = m_i + 1 /\ direct_always_blocked')
         => /\ (m_i' >= 3 => ever_rendered')
            /\ (last_mode = "rendered" => last_mode' = "rendered")]_vars

\* two Direct calls failed, the calls after them were made in Rendered
\* mode, and a call followed the first Rendered one
C8_Witness ==
    /\ m_i >= 4
    /\ direct_always_blocked
    /\ ever_rendered
    /\ last_mode = "rendered"
    /\ failed_pages = m_i

\* C9: the fetcher never throws.  No get_page call ends by raising: a
\* failure of the driver or of the page comes back as the value None.
C9_FetcherNeverThrows == f_pc # "raised"

\* A call in which the Selenium fetch failed has returned None.
C9_Witness ==
    /\ f_pc = "returned"
    /\ f_sel_failed
    /\ f_result = None

\* C10: Rendered to Direct fallback.  An IMDB get_page call in which the
\* Selenium fetch failed has made exactly one requests fetch by its end.
C10_RenderedFallsBackToDirect ==
    (f_kind \in {"imdb", "imdb_new"} /\ f_pc \in {"returned", "raised"}
        /\ f_sel_failed)
      => f_direct_tried = 1

\* C20 (as claimed): the counter never exceeds max_consecutive_fails, and a
\* counter that reached it has been reset by the cooldown before the
\* iteration ends.
C20_BoundedFailureCounter ==
    /\ consecutive_fails <= max_consecutive_fails
    /\ consecutive_fails # max_consecutive_fails

\* C14: the delay window computed under a larger count is never below the
\* one computed under a smaller count, and every delay drawn after 5
\* consecutive failures is at least every delay drawn after none.
C14_DelayMonotone ==
    d_win # <<>> =>
        /\ d_win[1].lo <= d_win[2].lo
        /\ d_win[1].hi <= d_win[2].hi
        /\ (d_kind = "collect" /\ d_a = 0 /\ d_b = 5) =>
               d_delay[1] <= d_delay[2]

C14_Witness ==
    /\ d_win # <<>>
    /\ d_kind = "collect"
    /\ d_a = 0
    /\ d_b = 5
    /\ d_win[1].hi < d_win[2].lo

\* C15 (as claimed): the verdict follows the rules in the order status in
\* {403, 429, 503} (Blocked), then length below 1000 (Empty), then a blocked
\* keyword (Blocked), otherwise Ok; a missing response is never Ok.
C15_RuleOrder ==
    b_verdict # "none" =>
        IF b_resp.missing THEN b_verdict # "Ok"
        ELSE IF b_resp.status \in BlockedStatus THEN b_verdict = "Blocked"
        ELSE IF b_resp.length < MinContentLength THEN b_verdict = "Empty"
        ELSE IF b_resp.keyword \/ b_resp.title_keyword
             THEN b_verdict = "Blocked"
        ELSE b_verdict = "Ok"

\* C11 (as claimed): a raw record whose id and title are both empty is
\* rejected, and a raw record with a non-empty id and an empty title is
\* accepted.
C11_IdentityRule ==
    \A k \in 1..Len(n_out) :
        /\ (~TruthyField(n_raw.id) /\ ~TruthyField(n_raw.title)) =>
               ~n_out[k].accepted
        /\ (TruthyField(n_raw.id) /\ n_raw.title = "") =>
               n_out[k].accepted

\* C16 (as claimed): two calls on the same raw record return identical
\* records, whatever the time of the calls and whatever happened before.
C16_Deterministic ==
    Len(n_out) >= 2 => n_out[1] = n_out[2]

\* C17 (as claimed): a job whose category list holds an unknown category
\* ends with an error: it raises, or its except branch reports the error;
\* it does not end as an ordinary run.
C17_UnknownCategorySurfaced ==
    (/\ pc = "done"
     /\ exit # "interrupted"
     /\ \E i \in 1..Len(categories) : categories[i] = "unknown")
        => (exit = "raised" \/ error_seen)

\* C18: the failure of one job, by a failure result or by an exception,
\* never stops the supervisor: when the loop is over every enabled
\* platform has been run and has an outcome recorded, and while it runs
\* every enabled platform has been run or is still to be run.
C18_JobIsolation ==
    /\ s_pc # "raised"
    /\ s_pc = "loop" =>
          \A k \in s_enabled :
              k \in s_ran \/ \E i \in 1..Len(s_todo) : s_todo[i] = k
    /\ s_pc = "done" =>
          \A k \in s_enabled : k \in s_ran /\ s_results[k] # "unset"

\* the first job returned a failure, the second raised, the third ran
C18_Witness ==
    /\ s_pc = "done"
    /\ s_results["douban"] = "failure"
    /\ s_results["imdb"] = None
    /\ s_results["rotten_tomatoes"] # "unset"
    /\ s_ran = SupKeys

\* C12 (as claimed): a job on a site with at least as many movies as its
\* target, all of whose get_page calls returned a useful page (a list page
\* with new links as long as the site has any, a detail page that parses
\* to a full record), ends with success, exactly max_movies records and
\* at least max_movies links discovered.
C12_EndToEndSuccess ==
    (/\ pc = "done"
     /\ exit = "returned"
     /\ hist = "ok"
     /\ NumMovies >= max_movies)
        => /\ result[1].success
           /\ result[1].data_count = max_movies
           /\ Cardinality(collected_links) >= max_movies

\* C13 (as claimed): a job whose first two get_page calls came back
\* without a useful page, and all of whose later calls returned one, still
\* reaches its target.
C13_RecoversAfterTwoBlocked ==
    (/\ pc = "done"
     /\ exit = "returned"
     /\ hist \in {"BB", "BBok"}
     /\ NumMovies >= max_movies)
        => Len(all_movie_data) >= max_movies

\* C21 (as claimed): a get_page call of the Douban or IMDB manager whose
\* fetch failed has made stop_max_attempt_number attempts before it gave
\* the url up.
C21_ThreeAttempts ==
    (/\ f_kind \in {"douban", "imdb"}
     /\ f_pc \in {"returned", "raised"}
     /\ f_sel_failed)
        => f_attempt = stop_max_attempt_number

\* C22: the phases of a job never interleave.  A list page is fetched (the
\* url index moves on) only while no link of a batch waits for its detail
\* page and no record of a batch is pending; a batch is started only then
\* too; and the extraction of a batch is over (the job goes back to the
\* loop head or on to the result) only when every link of the batch was
\* visited or the records reach the target.
C22_PhaseOrdering ==
    [][/\ (page_idx' = page_idx + 1 \/ batch_count' = batch_count + 1) =>
             (todo = {} /\ movie_data = <<>> /\ todo' = {})
       /\ (todo' # todo /\ todo' # {}) =>
             (pc' = "parse" /\ page_idx' = page_idx /\ cat_idx' = cat_idx)
       /\ (pc = "parse" /\ pc' \in {"loop", "finalize"}) =>
             (todo = {} \/ Len(all_movie_data') >= max_movies)]_vars

\* a second discovery batch fetches a list page after a first batch was
\* extracted
C22_Witness ==
    /\ pc = "collect"
    /\ batch_count >= 2
    /\ page_idx >= 1
    /\ collected_links # {}

\* C23 (as claimed): when max_consecutive_fails list pages in a row gave no
\* link, the remaining list pages are skipped: no page is fetched after
\* the first three pages all failed.
C23_CategoryAbandoned ==
    [][(m_i' = m_i + 1) =>
          ~(failed_pages = m_i /\ m_i >= max_consecutive_fails)]_vars

\* C24 (as claimed): a detail link whose page came back but gave no usable
\* movie_info (nothing parsed, or no title) is skipped after that one
\* fetch: its page is not fetched a second time.
C24_MalformedNeverRetried ==
    last_parse.first \in {"none", "notitle"} => last_parse.fetches = 1

\* C27 (as claimed): a link whose first fetch was parsed to a movie_info
\* with a title adds one record to the batch, after that single fetch.
C27_SuccessAppendsOnce ==
    last_parse.first \in {"norating", "full"} =>
        /\ last_parse.added
        /\ last_parse.fetches = 1

\* C25 (as claimed): every accepted record has no year or a year within
\* [1880, current year + 2], and no rating or a rating within [0, 10].
C25_SaneBounds ==
    \A k \in 1..Len(n_out) :
        n_out[k].accepted =>
            /\ \/ n_out[k].year = 0
               \/ (MIN_YEAR <= n_out[k].year
                     /\ n_out[k].year <= CurrentYear + YEAR_SLACK)
            /\ \/ n_out[k].rating = None
               \/ RatingInRange(n_out[k].rating)

(***************************************************************************)
(* Two crawler instances (douban_crawler/crawler.py, imdb_crawler/         *)
(* crawler.py): each constructor builds its own network manager, and the   *)
(* seen links, the records and the failure counter are locals of the       *)
(* methods of the instance.                                                *)
(***************************************************************************)

\* A constructor that hands every crawler the same manager object.
SharedNetworkManager(managers) == 1

\* NetworkManager(): a new object, distinct from every manager in use.
NewNetworkManager(managers) ==
    CHOOSE m \in ManagerIds : \A j \in Jobs : managers[j] # m

\* What one crawler instance can observe of its own job.
JobView(j) ==
    [links |-> i_links[j], data |-> i_data[j], fails |-> i_fails[j],
     session |-> IF i_manager[j] = 0 THEN None ELSE i_driver[i_manager[j]]]

\* DoubanMovieCrawler.__init__ / IMDBMovieCrawler.__init__
JobConstruct(j) ==
    /\ i_manager[j] = 0
    /\ i_manager' = [i_manager EXCEPT ![j] = NewNetworkManager(i_manager)]
    /\ i_actor' = j
    /\ UNCHANGED <<i_driver, i_links, i_data, i_fails>>

\* get_page of instance j's manager goes through Selenium: a fetch can
\* start the browser of that manager when it has none.
JobFetch(j, started) ==
    IF started THEN [i_driver EXCEPT ![i_manager[j]] = "driver"]
    ELSE i_driver

\* One list page of _collect_batch_links of instance j (either crawler):
\* the links found join the instance's collected_links.  No failure
\* counter is kept here.
JobListPage(j) ==
    /\ i_manager[j] # 0
    /\ \E found \in SUBSET JobLinks, started \in BOOLEAN :
        /\ i_links' = [i_links EXCEPT ![j] = @ \cup found]
        /\ i_driver' = JobFetch(j, started)
    /\ i_actor' = j
    /\ UNCHANGED <<i_manager, i_data, i_fails>>

\* One list page of DoubanMovieCrawler._collect_movie_links, the only loop
\* with a failure counter (IMDBMovieCrawler has none): the counter moves
\* with the outcome of the page and is not reset in the except branch.  Its
\* links stay in a local list of that method.  The TypeError of the call
\* comes before the manager is used: no browser is started.
JobCollectMovieLinks(j) ==
    /\ j = "douban"
    /\ i_manager[j] # 0
    /\ \E o \in PageOutcomes, started \in BOOLEAN :
        /\ o = "raise" => ~started
        /\ NextConsecutiveFails(i_fails[j], o) <= MaxPressure
        /\ i_fails' = [i_fails EXCEPT ![j] = NextConsecutiveFails(@, o)]
        /\ i_driver' = JobFetch(j, started)
    /\ i_actor' = j
    /\ UNCHANGED <<i_manager, i_links, i_data>>

\* One detail page of _parse_batch_movies of instance j: the page is
\* fetched through the manager and a record may be appended to the
\* instance's list.
JobDetailPage(j) ==
    /\ i_manager[j] # 0
    /\ \E appended \in BOOLEAN, started \in BOOLEAN :
        /\ appended => i_data[j] < MaxJobLinks
        /\ i_data' = [i_data EXCEPT ![j] = IF appended THEN @ + 1 ELSE @]
        /\ i_driver' = JobFetch(j, started)
    /\ i_actor' = j
    /\ UNCHANGED <<i_manager, i_links, i_fails>>

\* network_manager.close() of instance j: self.driver is reset after a
\* quit() that returned; a quit() that raised leaves it as it was.
JobClose(j) ==
    /\ i_manager[j] # 0
    /\ i_driver[i_manager[j]] # None
    /\ \E q \in QuitOutcomes :
         i_driver' = IF q = "ok"
                     THEN [i_driver EXCEPT ![i_manager[j]] = None]
                     ELSE i_driver
    /\ i_actor' = j
    /\ UNCHANGED <<i_manager, i_links, i_data, i_fails>>

InitInst ==
    /\ CrawlIdle
    /\ NetIdle
    /\ ModeIdle
    /\ FetchIdle
    /\ NormIdle
    /\ DelayIdle
    /\ DetectIdle
    /\ SupIdle
    /\ InstIdle

NextInst ==
    \E j \in Jobs :
        /\ \/ JobConstruct(j)
           \/ JobListPage(j)
           \/ JobCollectMovieLinks(j)
           \/ JobDetailPage(j)
           \/ JobClose(j)
        /\ UNCHANGED <<corevars, normvars, delayvars, detectvars, supvars>>

SpecInst == InitInst /\ [][NextInst]_vars

\* C26: a step of one crawler instance leaves the seen links, the records,
\* the failure counter and the browser session of every other instance
\* unchanged.
C26_JobStatePrivate ==
    [][\A j \in Jobs : i_actor' # j => JobView(j)' = JobView(j)]_vars

\* Both instances hold links and a live session, and one of them has just
\* taken a step.
C26_Witness ==
    /\ \A j \in Jobs : i_links[j] # {} /\ JobView(j).session = "driver"
    /\ i_fails["douban"] > 0
    /\ i_data["douban"] > 0
    /\ i_actor = "imdb"

\* C28 (as claimed): every browser session the network manager has started
\* is its current session or has been quit.
C28_OneLiveSession ==
    live_sessions \subseteq {driver}

C30_NeverBackToBack ==
    pace # "burst"

====
